---------------------------- MODULE Spec2Model ----------------------------
(* A model of the nanoGo tree-walking interpreter (package interp):       *)
(* the call / defer / panic machinery of callFunction, channels and       *)
(* goroutines, expression evaluation, environments, maps and slices,      *)
(* select statements, the tables kept across Run calls, RunSafe of the    *)
(* command-line host, tasks sharing the interpreter's frame stack, the    *)
(* == operator, switch, slice expressions, struct field assignment,       *)
(* multi-value assignment, range loops, and the calls of defer and go.    *)
(* Each subsystem has its own specification (SpecCall, SpecChan, ...);    *)
(* the variables of the other subsystems stay at their initial values.    *)
EXTENDS Integers, Sequences, FiniteSets, TLC

VARIABLES
  \* ---- call machinery (evaluator.go callFunction, environment.go frames)
  runState,     \* "idle" | "running" | "returned": where Interpreter.Run is
  runErr,       \* the error Run returned (an Outcome)
  stack,        \* the active callFunction invocations of the main task
  frames,       \* vm.frames: the frame ids pushed and not yet popped
  frameDefers,  \* callFrame.defers of each frame (frame id = invocation id)
  registered,   \* history: defer statements executed by each invocation
  executed,     \* history: deferred calls run by each invocation's exit
  exitHow,      \* history: how each finished invocation left its body
  nInv,         \* invocations started so far
  nDef,         \* defer statements executed so far
  raised,       \* history: panic values raised by panic(v) so far
  invParent,    \* history: the caller of each invocation and how it called
  invResult,    \* history: the error each finished invocation returned
  \* ---- one channel, the main task and a producer goroutine
  chElem,       \* ChannelVal.ElementType
  chCap,        \* the capacity given to make(chan T, cap)
  chQueue,      \* the values buffered in ChannelVal.C
  chClosedGo,   \* ChannelVal.C has been closed
  chClosed,     \* ChannelVal.Closed
  mainProg,     \* the body of main: "range" or "ops"
  mainPc,       \* where the main task is
  mainPending,  \* the outcome main's body left with
  mainOps,      \* channel operations main has done in an "ops" body
  prodN,        \* how many values the producer's body sends
  prodPc,       \* where the producer goroutine is
  prodSent,     \* how many values the producer has sent
  received,     \* history: the values the range body ran with, in order
  lastRecv,     \* history: the last receive of main and what it found
  closeLog,     \* history: every close(ch) call and how it ended
  sentOnClosed, \* history: main executed a send on the closed channel
  \* ---- one expression statement (evalExpr)
  exOperands,   \* the operand calls of the expression, left to right
  exOps,        \* the binary operators between them
  exPc,         \* "ready" | "done"
  exEffects,    \* history: the operands evaluated, in order
  exNodeVals,   \* history: the value of each left subexpression evaluated
  exResult,     \* the (value, error) evalExpr returned
  \* ---- environments (environment.go)
  nEnv,         \* environments created so far; 1 is vm.globals
  envParent,    \* Env.Parent (0 is nil)
  envVars,      \* Env.Vars
  \* ---- one map value (types.go MapVal)
  mapElem,      \* MapVal.ElementType
  mapData,      \* MapVal.Data: hashed key -> value
  mapKeys,      \* MapVal.Keys: hashed key -> original key
  keyHist,      \* history: per key, "fresh" | "set" | "setdel"
  lastLookup,   \* history: the last `x, ok := m[k]` and what it gave
  \* ---- slice values (types.go SliceVal, builtinAppend)
  slHeap,       \* the SliceVal objects: ElementType and Data
  s1,           \* the SliceVal the variable s1 refers to
  s2,           \* the SliceVal the variable s2 refers to (0: unset)
  slX,          \* history: the value last appended
  slOld,        \* history: s1's Data before the last append
  \* ---- select statements of the main task on one buffered channel
  selCap,       \* the capacity of the channel
  selQueue,     \* the values buffered in it
  selClosed,    \* it has been closed
  selOps,       \* statements main has executed
  selLast,      \* history: the last select statement and what it did
  \* ---- the interpreter's tables across Run calls (evaluator.go Run)
  funcs,        \* vm.funcs: the names of the top-level functions
  globalsVars,  \* vm.globals.Vars: what each global name is bound to
  types,        \* vm.types: per type name, its TypeDef
  declPc,       \* "idle" | "decls": where Run is
  runSrc,       \* history: the source of the current (or last) Run
  runResult,    \* history: what the last Run returned
  nRuns,        \* Run calls started so far
  \* ---- RunSafe (cmd/cli): the host call, its worker goroutine, the timer
  rsProg,       \* what the interpreted program does
  rsTimeout,    \* the timeout argument is positive
  rsPc,         \* RunSafe: "call" | "spawned" | "select" | "returned"
  rsRet,        \* the error RunSafe returned
  wkPc,         \* the worker: "unborn" | "running" | "send" | "done"
  wkRes,        \* what runInterpreted returned
  doneCh,       \* the buffer of the done channel (capacity 1)
  ctxDone,      \* ctx.Done() is closed
  hostCrashed,  \* the host process died of an unrecovered Go panic
  rsFirst,      \* history: which happened first, "program" end or "timeout"
  \* ---- two tasks on one interpreter: main and the goroutine of `go g()`
  tkFrames,     \* vm.frames, shared by the tasks
  tkDefers,     \* callFrame.defers of each task's frame
  tkPc,         \* where each task is in its callFunction
  tkAcc,        \* the access to shared state each task is in the middle of
  tkSnap,       \* what each task read at the start of that access
  tkNDef,       \* defer statements each task has executed
  tkI,          \* the index i of each task's exit loop
  tkRegs,       \* history: each defer statement, its task and its frame
  tkRan,        \* history: each deferred call run, and the task running it
  \* ---- one comparison a == b (evaluator.go equals)
  eqA,          \* the left operand
  eqB,          \* the right operand
  eqPc,         \* "ready" | "done"
  eqRes,        \* the value the comparison gave
  \* ---- one switch statement (evalStmt, SwitchStmt)
  swHasTag,     \* st.Tag != nil
  swTag,        \* the value of the tag expression
  swClauses,    \* st.Body.List: the clauses in source order
  swPc,         \* "ready" | "done"
  swRan,        \* history: the clauses whose body ran, by position
  \* ---- one slice expression x[lo:hi] (evalExpr, SliceExpr)
  sxX,          \* the value of x: a slice or a string
  sxLow,        \* the value of ex.Low (NoExpr: left out)
  sxHigh,       \* the value of ex.High (NoExpr: left out)
  sxPc,         \* "ready" | "done"
  sxRes,        \* the (value, error) evalExpr returned
  \* ---- one struct value and assignments to its fields (fieldRef)
  fdDecl,       \* TypeDef.Fields of its type: the declared field names
  fdFields,     \* StructVal.Fields
  fdLast,       \* history: the last assignment s.f = v and how it ended
  \* ---- one assignment  l1, l2 = r1, r2  (evalStmt, AssignStmt)
  asStore,      \* the variables a, b and the Data of the slice s
  asLhs,        \* st.Lhs
  asRhs,        \* st.Rhs
  asPc,         \* "ready" | "done"
  asBefore,     \* history: the store when the statement started
  asErr,        \* the error evalStmt returned
  \* ---- one range statement over a slice (evalStmt, RangeStmt)
  rgLast,       \* history: the range statement executed and its effect
  \* ---- defer f(x) and go f(x) in one function body (prepareCall)
  daEnv,        \* the variables of the body: x, and f holding a function
  daPc,         \* "body" | "exit" | "done": where the function is
  daDefers,     \* callFrame.defers of its frame: the registered closures
  daGos,        \* the goroutines started and not yet running their call
  daStmts,      \* history: each defer / go statement and the variables then
  daCalls       \* history: each call made, what it received, the variables

callVars == <<runState, runErr, stack, frames, frameDefers, registered,
              executed, exitHow, nInv, nDef, raised, invParent, invResult>>

chanVars == <<chElem, chCap, chQueue, chClosedGo, chClosed, mainProg, mainPc,
              mainPending, mainOps, prodN, prodPc, prodSent, received,
              lastRecv, closeLog, sentOnClosed>>

exprVars == <<exOperands, exOps, exPc, exEffects, exNodeVals, exResult>>

envVarsAll == <<nEnv, envParent, envVars>>

mapVars == <<mapElem, mapData, mapKeys, keyHist, lastLookup>>

sliceVars == <<slHeap, s1, s2, slX, slOld>>

selVars == <<selCap, selQueue, selClosed, selOps, selLast>>

declVars == <<funcs, globalsVars, types, declPc, runSrc, runResult, nRuns>>

safeVars == <<rsProg, rsTimeout, rsPc, rsRet, wkPc, wkRes, doneCh, ctxDone,
              hostCrashed, rsFirst>>

taskVars == <<tkFrames, tkDefers, tkPc, tkAcc, tkSnap, tkNDef, tkI, tkRegs,
              tkRan>>

eqVars == <<eqA, eqB, eqPc, eqRes>>

swVars == <<swHasTag, swTag, swClauses, swPc, swRan>>

sxVars == <<sxX, sxLow, sxHigh, sxPc, sxRes>>

fieldVars == <<fdDecl, fdFields, fdLast>>

assignVars == <<asStore, asLhs, asRhs, asPc, asBefore, asErr>>

rangeVars == <<rgLast>>

deferArgVars == <<daEnv, daPc, daDefers, daGos, daStmts, daCalls>>

vars == <<callVars, chanVars, exprVars, envVarsAll, mapVars, sliceVars, selVars, declVars, safeVars, taskVars, eqVars, swVars, sxVars, fieldVars, assignVars, rangeVars, deferArgVars>>

----------------------------------------------------------------------------
(* Bounds of the model.                                                   *)
MaxCalls == 4
MaxDepth == 3
MaxCap == 2
MaxSend == 3
MaxOps == 3
MaxOperands == 3
MaxEnvs == 3
MaxLen == 2
MaxAppends == 2
MaxSelOps == 4
MaxDecls == 2
MaxRuns == 2
MaxTaskDefers == 1
MaxClauses == 3
MaxDeferGo == 2

----------------------------------------------------------------------------
(* Outcomes of evaluating a statement or a call: the (value, error) pair  *)
(* of evalStmt / callFunction, plus a Go runtime panic in flight.         *)
NoErr == [kind |-> "none", v |-> ""]
NotReturned == [kind |-> "open", v |-> ""]
PanicErr(v) == [kind |-> "panic", v |-> v]          \* &panicError{value: v}
RuntimeErr(m) == [kind |-> "error", v |-> m]        \* NewRuntimeError(m)
GoFault(m) == [kind |-> "fault", v |-> m]           \* a Go runtime panic

PanicVals == {"boom", "bang"}

Last(s) == s[Len(s)]
Front(s) == SubSeq(s, 1, Len(s) - 1)
Range(s) == {s[i] : i \in 1..Len(s)}
Reverse(s) == [i \in 1..Len(s) |-> s[Len(s) + 1 - i]]

----------------------------------------------------------------------------
(* Runtime values (types.go): tagged, so values of different Go types are *)
(* different values. Nil is Go's nil interface value.                     *)
IntV(n) == [tag |-> "int", i |-> n]
StrV(s) == [tag |-> "string", s |-> s]
BoolV(b) == [tag |-> "bool", b |-> b]
Nil == [tag |-> "nil"]
\* a float64, in tenths: FloatV(15) is 1.5 (the model has none below 0)
FloatV(t) == [tag |-> "float", t |-> t]

(* builtins.go zeroValue, for the scalar type names.                      *)
zeroValue(typ) ==
  CASE typ \in {"int", "byte"} -> IntV(0)
    [] typ = "bool" -> BoolV(FALSE)
    [] typ = "string" -> StrV("")
    [] OTHER -> Nil

----------------------------------------------------------------------------
(* The part of the interpreter each specification leaves alone.           *)
callRest == <<stack, frameDefers, registered, executed, exitHow, nInv, nDef,
              raised, invParent, invResult>>
NoRecv == [form |-> "none", v |-> Nil, ok |-> FALSE, drained |-> FALSE,
           head |-> Nil]
ChanIdle ==
  /\ chElem = "int" /\ chCap = 0 /\ chQueue = <<>>
  /\ chClosedGo = FALSE /\ chClosed = FALSE
  /\ mainProg = "ops" /\ mainPc = "start" /\ mainPending = NoErr
  /\ mainOps = 0 /\ prodN = 0 /\ prodPc = "unborn" /\ prodSent = 0
  /\ received = <<>> /\ lastRecv = NoRecv /\ closeLog = {}
  /\ sentOnClosed = FALSE
NoLookup == [k |-> Nil, x |-> Nil, ok |-> FALSE, hist |-> "fresh", len |-> 0,
             others |-> 0]
ExprIdle ==
  /\ exOperands = <<>> /\ exOps = <<>> /\ exPc = "done"
  /\ exEffects = <<>> /\ exNodeVals = <<>> /\ exResult = Nil
EnvIdle == nEnv = 0 /\ envParent = <<>> /\ envVars = <<>>
MapIdle ==
  /\ mapElem = "int" /\ mapData = <<>> /\ mapKeys = <<>>
  /\ keyHist = <<>> /\ lastLookup = NoLookup
SliceIdle ==
  /\ slHeap = <<>> /\ s1 = 0 /\ s2 = 0 /\ slX = Nil /\ slOld = <<>>
NoSelect == [branch |-> "none", hasDefault |-> FALSE, before |-> <<>>,
             closed |-> FALSE, v |-> Nil]
SelIdle ==
  /\ selCap = 0 /\ selQueue = <<>> /\ selClosed = FALSE /\ selOps = 0
  /\ selLast = NoSelect
NoSrc == [pkg |-> "", decls |-> <<>>]
DeclIdle ==
  /\ funcs = {} /\ globalsVars = <<>> /\ types = <<>> /\ declPc = "off"
  /\ runSrc = NoSrc /\ runResult = "none" /\ nRuns = 0
SafeIdle ==
  /\ rsProg = "ok" /\ rsTimeout = TRUE /\ rsPc = "off" /\ rsRet = NotReturned
  /\ wkPc = "unborn" /\ wkRes = NotReturned /\ doneCh = <<>>
  /\ ctxDone = FALSE /\ hostCrashed = FALSE /\ rsFirst = "none"
TaskIdle ==
  /\ tkFrames = <<>> /\ tkDefers = <<>> /\ tkPc = <<>> /\ tkAcc = <<>>
  /\ tkSnap = <<>> /\ tkNDef = <<>> /\ tkI = <<>> /\ tkRegs = {}
  /\ tkRan = {}
EqIdle == eqA = Nil /\ eqB = Nil /\ eqPc = "off" /\ eqRes = Nil
SwIdle ==
  /\ swHasTag = FALSE /\ swTag = Nil /\ swClauses = <<>> /\ swPc = "off"
  /\ swRan = <<>>
SxIdle ==
  /\ sxX = Nil /\ sxLow = Nil /\ sxHigh = Nil /\ sxPc = "off" /\ sxRes = Nil
NoFieldAssign == [name |-> "", before |-> <<>>, err |-> NoErr]
FieldIdle == fdDecl = {} /\ fdFields = <<>> /\ fdLast = NoFieldAssign
AssignIdle ==
  /\ asStore = Nil /\ asLhs = <<>> /\ asRhs = <<>> /\ asPc = "off"
  /\ asBefore = Nil /\ asErr = NoErr
NoRange == [env |-> 0, key |-> "_", value |-> "_", data |-> <<>>,
            before |-> <<>>, after |-> <<>>]
RangeIdle == rgLast = NoRange
DeferArgIdle ==
  /\ daEnv = Nil /\ daPc = "off" /\ daDefers = <<>> /\ daGos = {}
  /\ daStmts = <<>> /\ daCalls = <<>>
OnlyCall == UNCHANGED <<chanVars, exprVars, envVarsAll, mapVars, sliceVars, selVars, declVars, safeVars, taskVars, eqVars, swVars, sxVars, fieldVars, assignVars, rangeVars, deferArgVars>>
OnlyChan == UNCHANGED <<callRest, exprVars, envVarsAll, mapVars, sliceVars, selVars, declVars, safeVars, taskVars, eqVars, swVars, sxVars, fieldVars, assignVars, rangeVars, deferArgVars>>
OnlyExpr == UNCHANGED <<callVars, chanVars, envVarsAll, mapVars, sliceVars, selVars, declVars, safeVars, taskVars, eqVars, swVars, sxVars, fieldVars, assignVars, rangeVars, deferArgVars>>
OnlyEnv == UNCHANGED <<callVars, chanVars, exprVars, mapVars, sliceVars, selVars, declVars, safeVars, taskVars, eqVars, swVars, sxVars, fieldVars, assignVars, rangeVars, deferArgVars>>
OnlyMap == UNCHANGED <<callVars, chanVars, exprVars, envVarsAll, sliceVars, selVars, declVars, safeVars, taskVars, eqVars, swVars, sxVars, fieldVars, assignVars, rangeVars, deferArgVars>>
OnlySlice == UNCHANGED <<callVars, chanVars, exprVars, envVarsAll, mapVars, selVars, declVars, safeVars, taskVars, eqVars, swVars, sxVars, fieldVars, assignVars, rangeVars, deferArgVars>>
OnlySel == UNCHANGED <<callVars, chanVars, exprVars, envVarsAll, mapVars, sliceVars, declVars, safeVars, taskVars, eqVars, swVars, sxVars, fieldVars, assignVars, rangeVars, deferArgVars>>
OnlyDecl == UNCHANGED <<callVars, chanVars, exprVars, envVarsAll, mapVars, sliceVars, selVars, safeVars, taskVars, eqVars, swVars, sxVars, fieldVars, assignVars, rangeVars, deferArgVars>>
OnlySafe == UNCHANGED <<callVars, chanVars, exprVars, envVarsAll, mapVars, sliceVars, selVars, declVars, taskVars, eqVars, swVars, sxVars, fieldVars, assignVars, rangeVars, deferArgVars>>
OnlyTask == UNCHANGED <<callVars, chanVars, exprVars, envVarsAll, mapVars, sliceVars, selVars, declVars, safeVars, eqVars, swVars, sxVars, fieldVars, assignVars, rangeVars, deferArgVars>>
OnlyEq == UNCHANGED <<callVars, chanVars, exprVars, envVarsAll, mapVars, sliceVars, selVars, declVars, safeVars, taskVars, swVars, sxVars, fieldVars, assignVars, rangeVars, deferArgVars>>
OnlySw == UNCHANGED <<callVars, chanVars, exprVars, envVarsAll, mapVars, sliceVars, selVars, declVars, safeVars, taskVars, eqVars, sxVars, fieldVars, assignVars, rangeVars, deferArgVars>>
OnlySx == UNCHANGED <<callVars, chanVars, exprVars, envVarsAll, mapVars, sliceVars, selVars, declVars, safeVars, taskVars, eqVars, swVars, fieldVars, assignVars, rangeVars, deferArgVars>>
OnlyField == UNCHANGED <<callVars, chanVars, exprVars, envVarsAll, mapVars, sliceVars, selVars, declVars, safeVars, taskVars, eqVars, swVars, sxVars, assignVars, rangeVars, deferArgVars>>
OnlyAssign == UNCHANGED <<callVars, chanVars, exprVars, envVarsAll, mapVars, sliceVars, selVars, declVars, safeVars, taskVars, eqVars, swVars, sxVars, fieldVars, rangeVars, deferArgVars>>
OnlyRange == UNCHANGED <<callVars, chanVars, exprVars, mapVars, sliceVars, selVars, declVars, safeVars, taskVars, eqVars, swVars, sxVars, fieldVars, assignVars, deferArgVars>>
OnlyDeferArg == UNCHANGED <<callVars, chanVars, exprVars, envVarsAll, mapVars, sliceVars, selVars, declVars, safeVars, taskVars, eqVars, swVars, sxVars, fieldVars, assignVars, rangeVars>>

----------------------------------------------------------------------------
(* environment.go: the frame stack.                                       *)
pushFrame(fs, id) == Append(fs, id)
currentFrame(fs) == IF Len(fs) = 0 THEN 0 ELSE Last(fs)
popFrame(fs) == IF Len(fs) = 0 THEN fs ELSE Front(fs)

(* A slip of the exit loop: the deferred calls run in registration order. *)
DeferAtForward(defers, ran) == defers[ran + 1]

(* callFunction's exit loop: for i := len(frame.defers)-1; i >= 0; i--.   *)
(* DeferAt gives the deferred call run after `ran` of them have run.      *)
DeferAt(defers, ran) == defers[Len(defers) - ran]

(* callFunction's recover(): a *panicError becomes the returned error, an *)
(* error returned by the body stays, any other recovered value is dropped.*)
FrameExitResult(pending) ==
  IF pending.kind = "fault" THEN NoErr ELSE pending

(* What the caller does with a callee's result: a deferred closure drops  *)
(* it (_, _ = vm.callFunction); a call statement returns the error, and   *)
(* callFunction re-panics a *panicError.                                  *)
Deliver(act, kind, res) ==
  IF kind = "deferred" \/ res.kind = "none"
    THEN act
    ELSE [act EXCEPT !.phase = "exit", !.pending = res,
                     !.n = Len(frameDefers[act.inv])]

NewAct(id, kind) ==
  [inv |-> id, kind |-> kind, phase |-> "body", pending |-> NoErr,
   n |-> 0, ran |-> 0]

Top == stack[Len(stack)]
InBody == runState = "running" /\ Len(stack) > 0 /\ Top.phase = "body"
InExit == runState = "running" /\ Len(stack) > 0 /\ Top.phase = "exit"

NExecuted == Cardinality(UNION {Range(executed[i]) : i \in 1..MaxCalls})
\* every registered defer needs one invocation to run in
CallBudget == nInv + (nDef - NExecuted) < MaxCalls

CallInit ==
  /\ runState = "idle"
  /\ runErr = NoErr
  /\ stack = <<>>
  /\ frames = <<>>
  /\ frameDefers = [i \in 1..MaxCalls |-> <<>>]
  /\ registered = [i \in 1..MaxCalls |-> <<>>]
  /\ executed = [i \in 1..MaxCalls |-> <<>>]
  /\ exitHow = [i \in 1..MaxCalls |-> "open"]
  /\ nInv = 0
  /\ nDef = 0
  /\ raised = {}
  /\ invParent = [i \in 1..MaxCalls |-> [inv |-> 0, kind |-> "none"]]
  /\ invResult = [i \in 1..MaxCalls |-> NotReturned]

(* callFunction entry: frame := vm.pushFrame().                           *)
Enter(kind) ==
  /\ nInv' = nInv + 1
  /\ frames' = pushFrame(frames, nInv + 1)
  /\ stack' = Append(stack, NewAct(nInv + 1, kind))
  /\ invParent' = [invParent EXCEPT
                     ![nInv + 1] = [inv |-> IF Len(stack) = 0 THEN 0
                                                              ELSE Top.inv,
                                    kind |-> kind]]

(* Run: mainFn is called with the global env.                             *)
RunMain ==
  /\ runState = "idle"
  /\ runState' = "running"
  /\ Enter("main")
  /\ UNCHANGED <<runErr, frameDefers, registered, executed, exitHow, nDef,
                 raised, invResult>>
  /\ OnlyCall

(* A call statement f(...): evalExpr(CallExpr) -> callFunction.           *)
StmtCall ==
  /\ InBody
  /\ Len(stack) < MaxDepth
  /\ CallBudget
  /\ Enter("call")
  /\ UNCHANGED <<runState, runErr, frameDefers, registered, executed,
                 exitHow, nDef, raised, invResult>>
  /\ OnlyCall

(* defer f(...): the call is appended to vm.currentFrame().defers.        *)
StmtDefer ==
  /\ InBody
  /\ CallBudget
  /\ currentFrame(frames) # 0
  /\ nDef' = nDef + 1
  /\ frameDefers' = [frameDefers EXCEPT
                       ![currentFrame(frames)] = Append(@, nDef + 1)]
  /\ registered' = [registered EXCEPT ![Top.inv] = Append(@, nDef + 1)]
  /\ UNCHANGED <<runState, runErr, stack, frames, executed, exitHow, nInv,
                 raised, invParent, invResult>>
  /\ OnlyCall

(* The body leaves: by return or its end, by panic(v), by a RuntimeError, *)
(* or by a Go runtime panic. The deferred closure of callFunction starts. *)
LeaveBody(pending, how) ==
  /\ InBody
  /\ stack' = [stack EXCEPT ![Len(stack)] =
                 [@ EXCEPT !.phase = "exit", !.pending = pending,
                           !.n = Len(frameDefers[Top.inv])]]
  /\ exitHow' = [exitHow EXCEPT ![Top.inv] = how]
  /\ UNCHANGED <<runState, runErr, frames, frameDefers, registered,
                 executed, nInv, nDef, invParent, invResult>>
  /\ OnlyCall

StmtReturn == LeaveBody(NoErr, "return") /\ UNCHANGED raised

StmtPanic ==
  \E v \in PanicVals :
    /\ LeaveBody(PanicErr(v), "panic")
    /\ raised' = raised \cup {v}

StmtError == LeaveBody(RuntimeErr("undefined"), "error") /\ UNCHANGED raised

StmtFault == LeaveBody(GoFault("divide by zero"), "fault") /\ UNCHANGED raised

(* The exit loop runs one deferred call: frame.defers[i]() calls          *)
(* callFunction for the deferred callee.                                  *)
ExitRunDefer ==
  /\ InExit
  /\ Top.ran < Top.n
  /\ LET d == DeferAt(frameDefers[Top.inv], Top.ran)
         id == nInv + 1
     IN /\ executed' = [executed EXCEPT ![Top.inv] = Append(@, d)]
        /\ nInv' = id
        /\ frames' = pushFrame(frames, id)
        /\ stack' = Append([stack EXCEPT ![Len(stack)].ran = @ + 1],
                           NewAct(id, "deferred"))
        /\ invParent' = [invParent EXCEPT
                           ![id] = [inv |-> Top.inv, kind |-> "deferred"]]
  /\ UNCHANGED <<runState, runErr, frameDefers, registered, exitHow, nDef,
                 raised, invResult>>
  /\ OnlyCall

(* The loop is over: vm.popFrame(), recover(), and the call returns to    *)
(* its caller (or Run returns the error of main).                         *)
ExitReturn ==
  /\ InExit
  /\ Top.ran = Top.n
  /\ frames' = popFrame(frames)
  /\ invResult' = [invResult EXCEPT ![Top.inv] = FrameExitResult(Top.pending)]
  /\ LET res == FrameExitResult(Top.pending)
     IN IF Len(stack) = 1
          THEN /\ stack' = <<>>
               /\ runErr' = res
               /\ runState' = "returned"
               /\ UNCHANGED exitHow
          ELSE /\ stack' = [Front(stack) EXCEPT ![Len(stack) - 1] =
                              Deliver(@, Top.kind, res)]
               /\ exitHow' =
                    IF Top.kind = "call" /\ res.kind # "none"
                      THEN [exitHow EXCEPT ![stack[Len(stack) - 1].inv] =
                              IF res.kind = "panic" THEN "panic" ELSE "error"]
                      ELSE exitHow
               /\ UNCHANGED <<runState, runErr>>
  /\ UNCHANGED <<frameDefers, registered, executed, nInv, nDef, raised,
                 invParent>>
  /\ OnlyCall

NextCall ==
  \/ RunMain
  \/ StmtCall
  \/ StmtDefer
  \/ StmtReturn
  \/ StmtPanic
  \/ StmtError
  \/ StmtFault
  \/ ExitRunDefer
  \/ ExitReturn

InitCall == CallInit /\ ChanIdle /\ ExprIdle /\ EnvIdle /\ MapIdle /\ SliceIdle /\ SelIdle /\ DeclIdle /\ SafeIdle /\ TaskIdle /\ EqIdle /\ SwIdle /\ SxIdle /\ FieldIdle /\ AssignIdle /\ RangeIdle /\ DeferArgIdle

SpecCall == InitCall /\ [][NextCall]_vars

----------------------------------------------------------------------------
(* Channels and goroutines. Run calls main, whose body makes the channel   *)
(* ch, starts `go producer(ch)` and then either ranges over ch ("range")  *)
(* or does receives, sends and closes of its own ("ops"). The producer's  *)
(* body sends prodN values and then calls close(ch).                      *)

Letters == <<"a", "b", "c", "d", "e", "f">>
\* the k-th value the producer sends, of the channel's element type
ChanVal(elem, k) == IF elem = "int" THEN IntV(k) ELSE StrV(Letters[k])
\* the value main sends
MainVal(elem) == IF elem = "int" THEN IntV(0 - 1) ELSE StrV("m")

ChanInit ==
  /\ chElem \in {"int", "string"}
  /\ chCap \in 0..MaxCap
  /\ chQueue = <<>>
  /\ chClosedGo = FALSE
  /\ chClosed = FALSE
  /\ mainProg \in {"range", "ops"}
  /\ mainPc = "start"
  /\ mainPending = NoErr
  /\ mainOps = 0
  /\ prodN \in 0..MaxSend
  /\ prodPc = "unborn"
  /\ prodSent = 0
  /\ received = <<>>
  /\ lastRecv = NoRecv
  /\ closeLog = {}
  /\ sentOnClosed = FALSE

(* Go's receive on ChannelVal.C: a buffered value, or (unbuffered) the    *)
(* value of the producer blocked in its send; on a closed and drained     *)
(* channel the zero value of `any` (nil) with ok = false.                 *)
CanTake ==
  \/ Len(chQueue) > 0
  \/ chCap = 0 /\ prodPc = "send" /\ ~chClosedGo
Drained == Len(chQueue) = 0 /\ chClosedGo
Taken == IF Len(chQueue) > 0 THEN Head(chQueue)
                             ELSE ChanVal(chElem, prodSent + 1)
GoRecv == IF CanTake THEN [v |-> Taken, ok |-> TRUE]
                     ELSE [v |-> Nil, ok |-> FALSE]
ProdNext(sent) == IF sent = prodN THEN "close" ELSE "send"
TakeEffect ==
  IF Len(chQueue) > 0
    THEN chQueue' = Tail(chQueue) /\ UNCHANGED <<prodPc, prodSent>>
    ELSE /\ prodSent' = prodSent + 1
         /\ prodPc' = ProdNext(prodSent + 1)
         /\ UNCHANGED chQueue

(* evalExpr, UnaryExpr ARROW: val, ok2 := <-ch.C; a closed channel gives  *)
(* zeroValue(ch.ElementType).                                             *)
Recv1Value(r, elem) == IF ~r.ok THEN zeroValue(elem) ELSE r.v

(* evalStmt, AssignStmt `v, ok := <-ch`: rightVals = []any{v, ok2}.       *)
Recv2Values(r, elem) == <<r.v, r.ok>>

(* A range loop that stops as soon as nothing is buffered.                *)
RangeOverNonBlocking(canTake, drained) ==
  IF canTake THEN "body" ELSE "end"

(* evalStmt, RangeStmt over a ChannelVal: for v := range s.C.             *)
RangeOver(canTake, drained) ==
  IF canTake THEN "body" ELSE IF drained THEN "end" ELSE "block"

(* builtinClose: if !c.Closed { close(c.C); c.Closed = true }; return nil *)
CloseEntry(by, wasClosed, res) == [by |-> by, wasClosed |-> wasClosed,
                                   res |-> res]

ChanRunMain ==
  /\ runState = "idle"
  /\ mainPc = "start"
  /\ runState' = "running"
  /\ frames' = pushFrame(frames, 1)
  /\ mainPc' = "go"
  /\ UNCHANGED <<runErr, chElem, chCap, chQueue, chClosedGo, chClosed,
                 mainProg, mainPending, mainOps, prodN, prodPc, prodSent,
                 received, lastRecv, closeLog, sentOnClosed>>
  /\ OnlyChan

(* evalStmt, GoStmt: go func() { vm.callFunction(fn, ...) }().            *)
MainGo ==
  /\ mainPc = "go"
  /\ prodPc' = "spawned"
  /\ mainPc' = mainProg
  /\ UNCHANGED <<runState, runErr, frames, chElem, chCap, chQueue,
                 chClosedGo, chClosed, mainProg, mainPending, mainOps, prodN,
                 prodSent, received, lastRecv, closeLog, sentOnClosed>>
  /\ OnlyChan

MainRangeBody ==
  /\ mainPc = "range"
  /\ RangeOver(CanTake, Drained) = "body"
  /\ received' = Append(received, GoRecv.v)
  /\ TakeEffect
  /\ UNCHANGED <<runState, runErr, frames, chElem, chCap, chClosedGo,
                 chClosed, mainProg, mainPc, mainPending, mainOps, prodN,
                 lastRecv, closeLog, sentOnClosed>>
  /\ OnlyChan

MainRangeEnd ==
  /\ mainPc = "range"
  /\ RangeOver(CanTake, Drained) = "end"
  /\ mainPc' = "exit"
  /\ UNCHANGED <<runState, runErr, frames, chElem, chCap, chQueue,
                 chClosedGo, chClosed, mainProg, mainPending, mainOps, prodN,
                 prodPc, prodSent, received, lastRecv, closeLog,
                 sentOnClosed>>
  /\ OnlyChan

MainCanOp == mainPc = "ops" /\ mainOps < MaxOps

MainRecv(form) ==
  /\ MainCanOp
  /\ CanTake \/ Drained
  /\ LET r == GoRecv
         vals == IF form = "recv1" THEN <<Recv1Value(r, chElem), r.ok>>
                                   ELSE Recv2Values(r, chElem)
     IN lastRecv' = [form |-> form, v |-> vals[1], ok |-> vals[2],
                     drained |-> ~CanTake,
                     head |-> IF CanTake THEN Taken ELSE Nil]
  /\ IF CanTake THEN TakeEffect ELSE UNCHANGED <<chQueue, prodPc, prodSent>>
  /\ mainOps' = mainOps + 1
  /\ UNCHANGED <<runState, runErr, frames, chElem, chCap, chClosedGo,
                 chClosed, mainProg, mainPc, mainPending, prodN, received,
                 closeLog, sentOnClosed>>
  /\ OnlyChan

MainRecv1 == MainRecv("recv1")

MainRecv2 == MainRecv("recv2")

(* evalStmt, SendStmt: ch.C <- val. On a closed channel Go panics; the    *)
(* panic leaves the body of the enclosing callFunction.                   *)
MainSend ==
  /\ MainCanOp
  /\ chClosedGo \/ Len(chQueue) < chCap
  /\ IF chClosedGo
       THEN /\ sentOnClosed' = TRUE
            /\ mainPending' = GoFault("send on closed channel")
            /\ mainPc' = "exit"
            /\ UNCHANGED chQueue
       ELSE /\ chQueue' = Append(chQueue, MainVal(chElem))
            /\ UNCHANGED <<sentOnClosed, mainPending, mainPc>>
  /\ mainOps' = mainOps + 1
  /\ UNCHANGED <<runState, runErr, frames, chElem, chCap, chClosedGo,
                 chClosed, mainProg, prodN, prodPc, prodSent, received,
                 lastRecv, closeLog>>
  /\ OnlyChan

MainClose ==
  /\ MainCanOp
  /\ mainOps' = mainOps + 1
  /\ IF chClosed
       THEN /\ closeLog' = closeLog \cup {CloseEntry("main", TRUE, "ok")}
            /\ UNCHANGED mainPc
       ELSE /\ mainPc' = "closing"
            /\ UNCHANGED closeLog
  /\ UNCHANGED <<runState, runErr, frames, chElem, chCap, chQueue,
                 chClosedGo, chClosed, mainProg, mainPending, prodN, prodPc,
                 prodSent, received, lastRecv, sentOnClosed>>
  /\ OnlyChan

MainClosing ==
  /\ mainPc = "closing"
  /\ IF chClosedGo
       THEN /\ closeLog' = closeLog \cup {CloseEntry("main", FALSE, "fault")}
            /\ mainPending' = GoFault("close of closed channel")
            /\ mainPc' = "exit"
            /\ UNCHANGED <<chClosedGo, chClosed>>
       ELSE /\ closeLog' = closeLog \cup {CloseEntry("main", FALSE, "ok")}
            /\ chClosedGo' = TRUE
            /\ chClosed' = TRUE
            /\ mainPc' = "ops"
            /\ UNCHANGED mainPending
  /\ UNCHANGED <<runState, runErr, frames, chElem, chCap, chQueue, mainProg,
                 mainOps, prodN, prodPc, prodSent, received, lastRecv,
                 sentOnClosed>>
  /\ OnlyChan

MainReturn ==
  /\ mainPc = "ops"
  /\ mainPc' = "exit"
  /\ UNCHANGED <<runState, runErr, frames, chElem, chCap, chQueue,
                 chClosedGo, chClosed, mainProg, mainPending, mainOps, prodN,
                 prodPc, prodSent, received, lastRecv, closeLog,
                 sentOnClosed>>
  /\ OnlyChan

(* callFunction's exit of main, and Run returns its error.                *)
MainExit ==
  /\ mainPc = "exit"
  /\ frames' = popFrame(frames)
  /\ runErr' = FrameExitResult(mainPending)
  /\ runState' = "returned"
  /\ mainPc' = "done"
  /\ UNCHANGED <<chElem, chCap, chQueue, chClosedGo, chClosed, mainProg,
                 mainPending, mainOps, prodN, prodPc, prodSent, received,
                 lastRecv, closeLog, sentOnClosed>>
  /\ OnlyChan

(* The goroutine runs callFunction for the producer.                      *)
ProdStart ==
  /\ prodPc = "spawned"
  /\ frames' = pushFrame(frames, 2)
  /\ prodPc' = ProdNext(0)
  /\ UNCHANGED <<runState, runErr, chElem, chCap, chQueue, chClosedGo,
                 chClosed, mainProg, mainPc, mainPending, mainOps, prodN,
                 prodSent, received, lastRecv, closeLog, sentOnClosed>>
  /\ OnlyChan

ProdSend ==
  /\ prodPc = "send"
  /\ chClosedGo \/ Len(chQueue) < chCap
  /\ IF chClosedGo
       THEN prodPc' = "exit" /\ UNCHANGED <<chQueue, prodSent>>
       ELSE /\ chQueue' = Append(chQueue, ChanVal(chElem, prodSent + 1))
            /\ prodSent' = prodSent + 1
            /\ prodPc' = ProdNext(prodSent + 1)
  /\ UNCHANGED <<runState, runErr, frames, chElem, chCap, chClosedGo,
                 chClosed, mainProg, mainPc, mainPending, mainOps, prodN,
                 received, lastRecv, closeLog, sentOnClosed>>
  /\ OnlyChan

ProdClose ==
  /\ prodPc = "close"
  /\ IF chClosed
       THEN /\ closeLog' = closeLog \cup {CloseEntry("producer", TRUE, "ok")}
            /\ prodPc' = "exit"
       ELSE /\ prodPc' = "closing"
            /\ UNCHANGED closeLog
  /\ UNCHANGED <<runState, runErr, frames, chElem, chCap, chQueue,
                 chClosedGo, chClosed, mainProg, mainPc, mainPending,
                 mainOps, prodN, prodSent, received, lastRecv, sentOnClosed>>
  /\ OnlyChan

ProdClosing ==
  /\ prodPc = "closing"
  /\ IF chClosedGo
       THEN /\ closeLog' =
                 closeLog \cup {CloseEntry("producer", FALSE, "fault")}
            /\ UNCHANGED <<chClosedGo, chClosed>>
       ELSE /\ closeLog' = closeLog \cup {CloseEntry("producer", FALSE, "ok")}
            /\ chClosedGo' = TRUE
            /\ chClosed' = TRUE
  /\ prodPc' = "exit"
  /\ UNCHANGED <<runState, runErr, frames, chElem, chCap, chQueue, mainProg,
                 mainPc, mainPending, mainOps, prodN, prodSent, received,
                 lastRecv, sentOnClosed>>
  /\ OnlyChan

ProdExit ==
  /\ prodPc = "exit"
  /\ frames' = popFrame(frames)
  /\ prodPc' = "done"
  /\ UNCHANGED <<runState, runErr, chElem, chCap, chQueue, chClosedGo,
                 chClosed, mainProg, mainPc, mainPending, mainOps, prodN,
                 prodSent, received, lastRecv, closeLog, sentOnClosed>>
  /\ OnlyChan

MainTask ==
  \/ ChanRunMain
  \/ MainGo
  \/ MainRangeBody
  \/ MainRangeEnd
  \/ MainRecv1
  \/ MainRecv2
  \/ MainSend
  \/ MainClose
  \/ MainClosing
  \/ MainReturn
  \/ MainExit

ProdTask ==
  \/ ProdStart
  \/ ProdSend
  \/ ProdClose
  \/ ProdClosing
  \/ ProdExit

NextChan ==
  \/ ChanRunMain
  \/ MainGo
  \/ MainRangeBody
  \/ MainRangeEnd
  \/ MainRecv1
  \/ MainRecv2
  \/ MainSend
  \/ MainClose
  \/ MainClosing
  \/ MainReturn
  \/ MainExit
  \/ ProdStart
  \/ ProdSend
  \/ ProdClose
  \/ ProdClosing
  \/ ProdExit

InitChan == CallInit /\ ChanInit /\ ExprIdle /\ EnvIdle /\ MapIdle /\ SliceIdle /\ SelIdle /\ DeclIdle /\ SafeIdle /\ TaskIdle /\ EqIdle /\ SwIdle /\ SxIdle /\ FieldIdle /\ AssignIdle /\ RangeIdle /\ DeferArgIdle

SpecChan == InitChan /\ [][NextChan]_vars

(* Go runs every goroutine that can run: each task is weakly fair.        *)
FairChan == SpecChan /\ WF_vars(MainTask) /\ WF_vars(ProdTask)

----------------------------------------------------------------------------
(* Coercions (types.go), on the values the model uses.                    *)
ToBool(v) ==
  CASE v.tag = "bool" -> v.b
    [] v.tag = "int" -> v.i # 0
    [] v.tag = "float" -> v.t # 0
    [] v.tag = "string" -> v.s \notin {"", "0", "false"}
    [] OTHER -> v # Nil

\* ToInt of a string parses its leading digits; of the strings the model
\* uses only "1" has any.
ToInt(v) ==
  CASE v.tag = "int" -> v.i
    [] v.tag = "float" -> v.t \div 10
    [] v.tag = "bool" -> IF v.b THEN 1 ELSE 0
    [] v.tag = "string" -> IF v.s = "1" THEN 1 ELSE 0
    [] OTHER -> 0

----------------------------------------------------------------------------
(* Expression evaluation. The statement is an ExprStmt whose expression   *)
(* is  c1 op1 c2 op2 ... cn  (a left-nested BinaryExpr tree): each ci is  *)
(* a call that returns true ("T"), returns false ("F") or fails ("E"),    *)
(* and each op is && or ||.                                               *)
OperandKinds == {"T", "F", "E"}
LogicalOps == {"&&", "||"}

(* applyBinaryOp, token.LAND and token.LOR.                               *)
applyBinaryOp(op, left, right) ==
  IF op = "&&" THEN BoolV(ToBool(left) /\ ToBool(right))
               ELSE BoolV(ToBool(left) \/ ToBool(right))

(* evalExpr of the operand call ci: the call is made, then its result or  *)
(* its error comes back.                                                  *)
EvalOperand(kind, i) ==
  [v |-> IF kind = "E" THEN Nil ELSE BoolV(kind = "T"),
   err |-> IF kind = "E" THEN RuntimeErr("undefined") ELSE NoErr,
   eff |-> <<i>>,
   nodes |-> <<>>]

(* evalExpr, BinaryExpr: l := evalExpr(X); r := evalExpr(Y); then         *)
(* applyBinaryOp(op, l, r). An error of X or of Y returns at once.        *)
RECURSIVE evalExpr(_, _, _)
evalExpr(operands, ops, k) ==
  IF k = 1
    THEN LET c == EvalOperand(operands[1], 1)
         IN [c EXCEPT !.nodes = IF c.err = NoErr THEN <<c.v>> ELSE <<>>]
    ELSE LET l == evalExpr(operands, ops, k - 1)
         IN IF l.err # NoErr
              THEN l
              ELSE LET r == EvalOperand(operands[k], k)
                       eff == l.eff \o r.eff
                   IN IF r.err # NoErr
                        THEN [v |-> Nil, err |-> r.err, eff |-> eff,
                              nodes |-> l.nodes]
                        ELSE LET v == applyBinaryOp(ops[k - 1], l.v, r.v)
                             IN [v |-> v, err |-> NoErr, eff |-> eff,
                                 nodes |-> Append(l.nodes, v)]

ExprInit ==
  /\ \E n \in 1..MaxOperands :
       /\ exOperands \in [1..n -> OperandKinds]
       /\ exOps \in [1..(n - 1) -> LogicalOps]
  /\ exPc = "ready"
  /\ exEffects = <<>>
  /\ exNodeVals = <<>>
  /\ exResult = Nil

(* evalStmt, ExprStmt: _, err := vm.evalExpr(st.X, env).                  *)
ExprStmt ==
  /\ exPc = "ready"
  /\ LET r == evalExpr(exOperands, exOps, Len(exOperands))
     IN /\ exEffects' = r.eff
        /\ exNodeVals' = r.nodes
        /\ exResult' = [v |-> r.v, err |-> r.err]
  /\ exPc' = "done"
  /\ UNCHANGED <<exOperands, exOps>>
  /\ OnlyExpr

NextExpr == ExprStmt

InitExpr == CallInit /\ ChanIdle /\ ExprInit /\ EnvIdle /\ MapIdle /\ SliceIdle /\ SelIdle /\ DeclIdle /\ SafeIdle /\ TaskIdle /\ EqIdle /\ SwIdle /\ SxIdle /\ FieldIdle /\ AssignIdle /\ RangeIdle /\ DeferArgIdle

SpecExpr == InitExpr /\ [][NextExpr]_vars

----------------------------------------------------------------------------
(* Environments (environment.go): NewEnv, get, set, declare.              *)
Names == {"x", "y"}
EnvValues == {IntV(1), Nil}
Absent == [tag |-> "absent"]     \* the name is not a key of Env.Vars

(* A lookup that stops after the parent of the starting scope.            *)
getShallow(name, e) ==
  IF envVars[e][name] # Absent THEN <<envVars[e][name], TRUE>>
  ELSE IF envParent[e] # 0 /\ envVars[envParent[e]][name] # Absent
    THEN <<envVars[envParent[e]][name], TRUE>>
    ELSE <<Nil, FALSE>>

(* Interpreter.get: for e := env; e != nil; e = e.Parent.                 *)
RECURSIVE get(_, _)
get(name, e) ==
  IF e = 0 THEN <<Nil, FALSE>>
  ELSE IF envVars[e][name] # Absent THEN <<envVars[e][name], TRUE>>
  ELSE get(name, envParent[e])

\* the first scope from e outwards that binds name (0: none)
RECURSIVE Holder(_, _)
Holder(name, e) ==
  IF e = 0 THEN 0
  ELSE IF envVars[e][name] # Absent THEN e
  ELSE Holder(name, envParent[e])

(* Interpreter.set: the first binding outwards, else the current scope.   *)
set(name, val, e) ==
  LET h == Holder(name, e)
      target == IF h # 0 THEN h ELSE e
  IN [envVars EXCEPT ![target][name] = val]

(* Interpreter.declare: env.Vars[name] = val.                             *)
declare(name, val, e) == [envVars EXCEPT ![e][name] = val]

EnvInit ==
  /\ nEnv = 1
  /\ envParent = <<0>>
  /\ envVars = <<[n \in Names |-> Absent]>>

(* NewEnv(parent): a block, a loop, a call.                               *)
EnvNew ==
  \E p \in 1..nEnv :
    /\ nEnv < MaxEnvs
    /\ nEnv' = nEnv + 1
    /\ envParent' = Append(envParent, p)
    /\ envVars' = Append(envVars, [n \in Names |-> Absent])
    /\ OnlyEnv

EnvDeclare ==
  \E e \in 1..nEnv, n \in Names, v \in EnvValues :
    /\ envVars' = declare(n, v, e)
    /\ UNCHANGED <<nEnv, envParent>>
    /\ OnlyEnv

EnvSet ==
  \E e \in 1..nEnv, n \in Names, v \in EnvValues :
    /\ envVars' = set(n, v, e)
    /\ UNCHANGED <<nEnv, envParent>>
    /\ OnlyEnv

NextEnv ==
  \/ EnvNew
  \/ EnvDeclare
  \/ EnvSet

InitEnv == CallInit /\ ChanIdle /\ ExprIdle /\ EnvInit /\ MapIdle /\ SliceIdle /\ SelIdle /\ DeclIdle /\ SafeIdle /\ TaskIdle /\ EqIdle /\ SwIdle /\ SxIdle /\ FieldIdle /\ AssignIdle /\ RangeIdle /\ DeferArgIdle

SpecEnv == InitEnv /\ [][NextEnv]_vars

----------------------------------------------------------------------------
(* One map value m of type map[K]T (types.go MapVal, mapIndexRef).        *)
MapKeyU == {IntV(1), StrV("1"), StrV("a")}
MapValU(elem) == IF elem = "int" THEN {IntV(5), Nil} ELSE {StrV("v"), Nil}

(* types.go hashKey.                                                      *)
hashKey(v) ==
  CASE v.tag = "int" -> "i:" \o ToString(v.i)
    [] v.tag = "string" -> "s:" \o v.s
    [] v.tag = "bool" -> IF v.b THEN "b:1" ELSE "b:0"
    [] OTHER -> "u:<nil>:<nil>"

Put(f, h, v) == [x \in DOMAIN f \cup {h} |-> IF x = h THEN v ELSE f[x]]
Drop(f, h) == [x \in DOMAIN f \ {h} |-> f[x]]

(* The MapVal m: its two tables.                                          *)
TheMap == [Data |-> mapData, Keys |-> mapKeys]

(* MapVal.setByKey: m.Data[h] = v; m.Keys[h] = k.                         *)
setByKey(m, k, v) ==
  [Data |-> Put(m.Data, hashKey(k), v), Keys |-> Put(m.Keys, hashKey(k), k)]

(* A delete that forgets the original-key table.                          *)
deleteByKeyDataOnly(m, k) ==
  [Data |-> Drop(m.Data, hashKey(k)), Keys |-> m.Keys]

(* MapVal.deleteByKey: delete(m.Data, h); delete(m.Keys, h).              *)
deleteByKey(m, k) ==
  [Data |-> Drop(m.Data, hashKey(k)), Keys |-> Drop(m.Keys, hashKey(k))]

(* keysOfMap: the hashed keys a range over the map visits.                *)
keysOfMap(m) == DOMAIN m.Keys

(* MapVal.getByKey: v, ok := m.Data[h].                                   *)
getByKey(data, k) ==
  LET h == hashKey(k)
  IN IF h \in DOMAIN data THEN <<data[h], TRUE>> ELSE <<Nil, FALSE>>

(* builtinLen of a map: len(x.Data).                                      *)
builtinLen(data) == Cardinality(DOMAIN data)

MapInit ==
  /\ mapElem \in {"int", "string"}
  /\ mapData = [h \in {} |-> Nil]
  /\ mapKeys = [h \in {} |-> Nil]
  /\ keyHist = [k \in MapKeyU |-> "fresh"]
  /\ lastLookup = NoLookup

(* m[k] = v through mapIndexRef.Set: a nil value deletes the key.         *)
MapAssign ==
  \E k \in MapKeyU, v \in MapValU(mapElem) :
    /\ LET m == IF v = Nil THEN deleteByKey(TheMap, k)
                           ELSE setByKey(TheMap, k, v)
       IN mapData' = m.Data /\ mapKeys' = m.Keys
    /\ keyHist' = [keyHist EXCEPT ![k] = "set"]
    /\ UNCHANGED <<mapElem, lastLookup>>
    /\ OnlyMap

(* delete(m, k): MapVal.deleteByKey.                                      *)
MapDelete ==
  \E k \in MapKeyU :
    /\ LET m == deleteByKey(TheMap, k)
       IN mapData' = m.Data /\ mapKeys' = m.Keys
    /\ keyHist' = [keyHist EXCEPT
                     ![k] = IF @ = "fresh" THEN "fresh" ELSE "setdel"]
    /\ UNCHANGED <<mapElem, lastLookup>>
    /\ OnlyMap

(* x, ok := m[k]: evalStmt's two-value map form.                          *)
MapLookup ==
  \E k \in MapKeyU :
    /\ LET r == getByKey(mapData, k)
       IN lastLookup' = [k |-> k, x |-> r[1], ok |-> r[2],
                         hist |-> keyHist[k],
                         len |-> builtinLen(mapData),
                         others |-> Cardinality(DOMAIN mapData
                                                 \ {hashKey(k)})]
    /\ UNCHANGED <<mapElem, mapData, mapKeys, keyHist>>
    /\ OnlyMap

NextMap ==
  \/ MapAssign
  \/ MapDelete
  \/ MapLookup

InitMap == CallInit /\ ChanIdle /\ ExprIdle /\ EnvIdle /\ MapInit /\ SliceIdle /\ SelIdle /\ DeclIdle /\ SafeIdle /\ TaskIdle /\ EqIdle /\ SwIdle /\ SxIdle /\ FieldIdle /\ AssignIdle /\ RangeIdle /\ DeferArgIdle

SpecMap == InitMap /\ [][NextMap]_vars

----------------------------------------------------------------------------
(* Slice values and append (types.go SliceVal, builtinAppend). The        *)
(* variable s1 holds a slice; the statement s2 = append(s1, x) runs.      *)
ByteMod == 256
SliceElems == {"int", "byte", "string"}
StoredU(elem) ==
  CASE elem = "int" -> {IntV(7), IntV(300)}
    [] elem = "byte" -> {IntV(7), IntV(44)}
    [] OTHER -> {StrV("a"), StrV("")}
AppendU(elem) ==
  IF elem = "string" THEN {StrV("a"), StrV("")} ELSE {IntV(7), IntV(300)}
SeqsUpTo(S, n) == UNION {[1..m -> S] : m \in 0..n}

(* builtinAppend for one element: the SliceVal s itself gets the element  *)
(* appended to its Data (masked to 8 bits for a byte slice) and s is      *)
(* returned.                                                              *)
builtinAppend(heap, s, x) ==
  LET e == IF heap[s].elem = "byte" THEN IntV(ToInt(x) % ByteMod) ELSE x
  IN [heap |-> [heap EXCEPT ![s].data = Append(@, e)], result |-> s]

SliceInit ==
  /\ \E e \in SliceElems :
       \E d \in SeqsUpTo(StoredU(e), MaxLen) :
         slHeap = <<[elem |-> e, data |-> d]>>
  /\ s1 = 1
  /\ s2 = 0
  /\ slX = Nil
  /\ slOld = <<>>

(* s2 = append(s1, x): evalExpr (append) and the assignment.              *)
SliceAppend ==
  \E x \in AppendU(slHeap[s1].elem) :
    /\ Len(slHeap[s1].data) < MaxLen + MaxAppends
    /\ LET r == builtinAppend(slHeap, s1, x)
       IN /\ slHeap' = r.heap
          /\ s2' = r.result
    /\ slX' = x
    /\ slOld' = slHeap[s1].data
    /\ UNCHANGED s1
    /\ OnlySlice

NextSlice == SliceAppend

InitSlice == CallInit /\ ChanIdle /\ ExprIdle /\ EnvIdle /\ MapIdle /\ SliceInit /\ SelIdle /\ DeclIdle /\ SafeIdle /\ TaskIdle /\ EqIdle /\ SwIdle /\ SxIdle /\ FieldIdle /\ AssignIdle /\ RangeIdle /\ DeferArgIdle

SpecSlice == InitSlice /\ [][NextSlice]_vars

----------------------------------------------------------------------------
(* Select. main makes a buffered channel and then executes sends, closes  *)
(* and select statements with one receive case `case v := <-ch`, with or  *)
(* without a default clause.                                              *)
SelVals == {IntV(1), IntV(2)}

(* A receive case is ready when the channel holds a value or is closed.   *)
SelectReady(queue, closed) == Len(queue) > 0 \/ closed

(* A select that prefers its default clause to a ready case.              *)
SelectPickDefaultFirst(ready, hasDefault) ==
  IF hasDefault THEN "default" ELSE IF ready THEN "recv" ELSE "block"

(* A ready case is executed; with none ready the default clause is, if    *)
(* there is one; otherwise the statement blocks.                          *)
SelectPick(ready, hasDefault) ==
  IF ready THEN "recv" ELSE IF hasDefault THEN "default" ELSE "block"

(* What the receive case binds: the head of the buffer, or the zero value *)
(* of the element type on a closed, drained channel.                      *)
SelectRecvValue(queue) ==
  IF Len(queue) > 0 THEN Head(queue) ELSE zeroValue("int")

SelInit ==
  /\ selCap \in 1..MaxCap
  /\ selQueue = <<>>
  /\ selClosed = FALSE
  /\ selOps = 0
  /\ selLast = NoSelect

(* ch <- v with room in the buffer (evalStmt, SendStmt).                  *)
SelSend ==
  \E v \in SelVals :
    /\ selOps < MaxSelOps
    /\ ~selClosed
    /\ Len(selQueue) < selCap
    /\ selQueue' = Append(selQueue, v)
    /\ selOps' = selOps + 1
    /\ UNCHANGED <<selCap, selClosed, selLast>>
    /\ OnlySel

(* close(ch) on the open channel (builtinClose).                          *)
SelClose ==
  /\ selOps < MaxSelOps
  /\ ~selClosed
  /\ selClosed' = TRUE
  /\ selOps' = selOps + 1
  /\ UNCHANGED <<selCap, selQueue, selLast>>
  /\ OnlySel

(* The select statement.                                                  *)
SelectStmt(hasDefault) ==
  LET pick == SelectPick(SelectReady(selQueue, selClosed), hasDefault)
  IN /\ selOps < MaxSelOps
     /\ pick # "block"
     /\ selQueue' = IF pick = "recv" /\ Len(selQueue) > 0
                      THEN Tail(selQueue) ELSE selQueue
     /\ selLast' = [branch |-> pick, hasDefault |-> hasDefault,
                    before |-> selQueue, closed |-> selClosed,
                    v |-> IF pick = "recv" THEN SelectRecvValue(selQueue)
                                           ELSE Nil]
     /\ selOps' = selOps + 1
     /\ UNCHANGED <<selCap, selClosed>>
     /\ OnlySel

SelectWithDefault == SelectStmt(TRUE)
SelectNoDefault == SelectStmt(FALSE)

NextSel ==
  \/ SelSend
  \/ SelClose
  \/ SelectWithDefault
  \/ SelectNoDefault

InitSel == CallInit /\ ChanIdle /\ ExprIdle /\ EnvIdle /\ MapIdle /\ SliceIdle /\ SelInit /\ DeclIdle /\ SafeIdle /\ TaskIdle /\ EqIdle /\ SwIdle /\ SxIdle /\ FieldIdle /\ AssignIdle /\ RangeIdle /\ DeferArgIdle

SpecSel == InitSel /\ [][NextSel]_vars

----------------------------------------------------------------------------
(* Interpreter.Run on one interpreter, called repeatedly. A source is its *)
(* package clause, whether it imports fmt, and its top-level declarations *)
(* in source order; Run's declaration loop takes them one at a time.      *)
PkgNames == {"main", "foo"}
GlobalNames == {"main", "f", "x", "fmt"}
TypeNames == {"T"}
NoType == [declared |-> FALSE, hasFields |-> FALSE, Methods |-> {}]
Decls ==
  {[k |-> "func", name |-> "main"], [k |-> "func", name |-> "f"],
   [k |-> "var", name |-> "x"], [k |-> "var", name |-> "f"],
   [k |-> "varfail", name |-> "x"],
   [k |-> "type", name |-> "T"], [k |-> "method", name |-> "m"]}

DeclInit ==
  /\ funcs = {}
  /\ globalsVars = [n \in GlobalNames |-> "none"]
  /\ types = [t \in TypeNames |-> NoType]
  /\ declPc = "idle"
  /\ runSrc = NoSrc
  /\ runResult = "none"
  /\ nRuns = 0

(* if file.Name.Name != "main" { return NewRuntimeError(...) }            *)
PackageAny(name) == TRUE
PackageOk(name) == name = "main"

(* FuncDecl without receiver, with the table replaced instead of extended.*)
DeclareFuncAlone(fs, name) == {name}
(* FuncDecl without receiver: vm.funcs[fn.Name] = fn.                     *)
DeclareFunc(fs, name) == fs \cup {name}

(* TYPE: vm.types[td.Name] = td, a TypeDef with the struct's fields and   *)
(* an empty method table.                                                 *)
DeclareType(ts, name) ==
  [ts EXCEPT ![name] = [declared |-> TRUE, hasFields |-> TRUE,
                        Methods |-> {}]]

(* FuncDecl with receiver T: td := vm.types[T], created without fields if *)
(* nil; td.Methods[fn.Name] = fn.                                         *)
DeclareMethod(ts, recv, name) ==
  [ts EXCEPT ![recv] = [declared |-> TRUE, hasFields |-> @.hasFields,
                        Methods |-> @.Methods \cup {name}]]

RunReturns(res) ==
  /\ runResult' = res
  /\ declPc' = "idle"

(* Run up to the declaration loop: ParseFile, the package clause, the     *)
(* imports.                                                               *)
RunStart ==
  \E parses \in BOOLEAN, pkg \in PkgNames, importsFmt \in BOOLEAN :
    /\ declPc = "idle"
    /\ nRuns < MaxRuns
    /\ nRuns' = nRuns + 1
    /\ runSrc' = [pkg |-> IF parses THEN pkg ELSE "", decls |-> <<>>]
    /\ IF ~parses \/ ~PackageOk(pkg)
         THEN /\ RunReturns("error")
              /\ UNCHANGED globalsVars
         ELSE /\ declPc' = "decls"
              /\ runResult' = "none"
              /\ globalsVars' = IF importsFmt
                                  THEN [globalsVars EXCEPT !["fmt"] = "pkg"]
                                  ELSE globalsVars
    /\ UNCHANGED <<funcs, types>>
    /\ OnlyDecl

(* One turn of `for _, decl := range file.Decls`.                         *)
RunDecl ==
  \E d \in Decls :
    /\ declPc = "decls"
    /\ Len(runSrc.decls) < MaxDecls
    /\ runSrc' = [runSrc EXCEPT !.decls = Append(@, d)]
    /\ CASE d.k = "func" ->
              /\ funcs' = DeclareFunc(funcs, d.name)
              /\ globalsVars' = [globalsVars EXCEPT ![d.name] = "func"]
              /\ UNCHANGED <<types, declPc, runResult>>
         [] d.k = "var" ->
              /\ globalsVars' = [globalsVars EXCEPT ![d.name] = "var"]
              /\ UNCHANGED <<funcs, types, declPc, runResult>>
         [] d.k = "varfail" ->
              /\ RunReturns("error")
              /\ UNCHANGED <<funcs, globalsVars, types>>
         [] d.k = "type" ->
              /\ types' = DeclareType(types, d.name)
              /\ UNCHANGED <<funcs, globalsVars, declPc, runResult>>
         [] OTHER ->
              /\ types' = DeclareMethod(types, "T", d.name)
              /\ UNCHANGED <<funcs, globalsVars, declPc, runResult>>
    /\ UNCHANGED nRuns
    /\ OnlyDecl

(* After the loop: mainFn, ok := vm.funcs["main"]; main is called and Run *)
(* returns its error.                                                     *)
RunCallMain ==
  \E mainResult \in {"ok", "error"} :
    /\ declPc = "decls"
    /\ RunReturns(IF "main" \in funcs THEN mainResult ELSE "error")
    /\ UNCHANGED <<funcs, globalsVars, types, runSrc, nRuns>>
    /\ OnlyDecl

NextDecl ==
  \/ RunStart
  \/ RunDecl
  \/ RunCallMain

InitDecl == CallInit /\ ChanIdle /\ ExprIdle /\ EnvIdle /\ MapIdle /\ SliceIdle /\ SelIdle /\ DeclInit /\ SafeIdle /\ TaskIdle /\ EqIdle /\ SwIdle /\ SxIdle /\ FieldIdle /\ AssignIdle /\ RangeIdle /\ DeferArgIdle

SpecDecl == InitDecl /\ [][NextDecl]_vars

----------------------------------------------------------------------------
(* RunSafe(source, timeout): the host goroutine, the worker goroutine     *)
(* that runs runInterpreted(source), and the timer of the context.        *)
(* Programs: "ok" ends normally; "panic" calls panic("boom") in main;     *)
(* "error" makes Run return a RuntimeError; "loop" never ends;            *)
(* "faultBody" has a Go runtime panic (1 % 0) inside a function body;     *)
(* "faultTop" has one in a top-level variable initialiser.                *)
SafeProgs == {"ok", "panic", "error", "loop", "faultBody", "faultTop"}
TimeoutErr == [kind |-> "timeout", v |-> "execution timed out"]
DoneCap == 1

(* What vm.Run returns for a program that ends: callFunction turns a      *)
(* panic(v) of main into its error and drops a recovered Go panic.        *)
RunOutcome(prog) ==
  CASE prog = "panic" -> FrameExitResult(PanicErr("boom"))
    [] prog = "error" -> RuntimeErr("undefined")
    [] prog = "faultBody" -> FrameExitResult(GoFault("divide by zero"))
    [] OTHER -> NoErr

SafeInit ==
  /\ rsProg \in SafeProgs
  /\ rsTimeout \in BOOLEAN
  /\ rsPc = "call"
  /\ rsRet = NotReturned
  /\ wkPc = "unborn"
  /\ wkRes = NotReturned
  /\ doneCh = <<>>
  /\ ctxDone = FALSE
  /\ hostCrashed = FALSE
  /\ rsFirst = "none"

(* RunSafe returns err; its deferred cancel() closes ctx.Done().          *)
RunSafeReturns(err) ==
  /\ rsRet' = err
  /\ rsPc' = "returned"

(* context.WithTimeout, make(chan error, 1), go func() { ... }().         *)
RunSafeStart ==
  /\ ~hostCrashed
  /\ rsPc = "call"
  /\ rsPc' = "spawned"
  /\ wkPc' = "running"
  /\ ctxDone' = ~rsTimeout
  /\ rsFirst' = IF rsTimeout THEN rsFirst ELSE "timeout"
  /\ UNCHANGED <<rsProg, rsTimeout, rsRet, wkRes, doneCh, hostCrashed>>
  /\ OnlySafe

(* RunSafe reaches its select: a ready case is taken (either one when     *)
(* both are ready); with none ready the goroutine parks in the select.    *)
RunSafeSelect ==
  /\ ~hostCrashed
  /\ rsPc = "spawned"
  /\ \/ /\ Len(doneCh) > 0
        /\ RunSafeReturns(Head(doneCh))
        /\ doneCh' = Tail(doneCh)
        /\ ctxDone' = TRUE
     \/ /\ ctxDone
        /\ RunSafeReturns(TimeoutErr)
        /\ UNCHANGED <<doneCh, ctxDone>>
     \/ /\ Len(doneCh) = 0 /\ ~ctxDone
        /\ rsPc' = "select"
        /\ UNCHANGED <<rsRet, doneCh, ctxDone>>
  /\ UNCHANGED <<rsProg, rsTimeout, wkPc, wkRes, hostCrashed, rsFirst>>
  /\ OnlySafe

(* runInterpreted(source) returns in the worker.                          *)
WorkerFinish ==
  /\ ~hostCrashed
  /\ wkPc = "running"
  /\ rsProg \notin {"loop", "faultTop"}
  /\ wkRes' = RunOutcome(rsProg)
  /\ wkPc' = "send"
  /\ rsFirst' = IF rsFirst = "none" THEN "program" ELSE rsFirst
  /\ UNCHANGED <<rsProg, rsTimeout, rsPc, rsRet, doneCh, ctxDone,
                 hostCrashed>>
  /\ OnlySafe

(* Run evaluates a top-level initialiser outside any callFunction: a Go   *)
(* runtime panic there is recovered nowhere in the worker goroutine; the  *)
(* deferred recover of RunSafe is in another goroutine.                   *)
WorkerCrash ==
  /\ ~hostCrashed
  /\ wkPc = "running"
  /\ rsProg = "faultTop"
  /\ hostCrashed' = TRUE
  /\ UNCHANGED <<rsProg, rsTimeout, rsPc, rsRet, wkPc, wkRes, doneCh,
                 ctxDone, rsFirst>>
  /\ OnlySafe

(* The send on a done channel made without a buffer: it completes only    *)
(* while RunSafe is parked in the select.                                 *)
WorkerSendUnbuffered ==
  /\ ~hostCrashed
  /\ wkPc = "send"
  /\ rsPc = "select"
  /\ wkPc' = "done"
  /\ RunSafeReturns(wkRes)
  /\ ctxDone' = TRUE
  /\ UNCHANGED <<rsProg, rsTimeout, wkRes, doneCh, hostCrashed, rsFirst>>
  /\ OnlySafe

(* done <- result: handed to RunSafe when it is parked in the select,     *)
(* buffered otherwise.                                                    *)
WorkerSend ==
  /\ ~hostCrashed
  /\ wkPc = "send"
  /\ Len(doneCh) < DoneCap
  /\ wkPc' = "done"
  /\ IF rsPc = "select"
       THEN /\ RunSafeReturns(wkRes)
            /\ ctxDone' = TRUE
            /\ UNCHANGED doneCh
       ELSE /\ doneCh' = Append(doneCh, wkRes)
            /\ UNCHANGED <<rsPc, rsRet, ctxDone>>
  /\ UNCHANGED <<rsProg, rsTimeout, wkRes, hostCrashed, rsFirst>>
  /\ OnlySafe

(* The timeout elapses: ctx.Done() is closed.                             *)
CtxTimeout ==
  /\ ~hostCrashed
  /\ rsPc \in {"spawned", "select"}
  /\ ~ctxDone
  /\ ctxDone' = TRUE
  /\ rsFirst' = IF rsFirst = "none" THEN "timeout" ELSE rsFirst
  /\ IF rsPc = "select"
       THEN RunSafeReturns(TimeoutErr)
       ELSE UNCHANGED <<rsPc, rsRet>>
  /\ UNCHANGED <<rsProg, rsTimeout, wkPc, wkRes, doneCh, hostCrashed>>
  /\ OnlySafe

NextSafe ==
  \/ RunSafeStart
  \/ RunSafeSelect
  \/ WorkerFinish
  \/ WorkerCrash
  \/ WorkerSend
  \/ CtxTimeout

InitSafe == CallInit /\ ChanIdle /\ ExprIdle /\ EnvIdle /\ MapIdle /\ SliceIdle /\ SelIdle /\ DeclIdle /\ SafeInit /\ TaskIdle /\ EqIdle /\ SwIdle /\ SxIdle /\ FieldIdle /\ AssignIdle /\ RangeIdle /\ DeferArgIdle

SpecSafe == InitSafe /\ [][NextSafe]_vars

----------------------------------------------------------------------------
(* Tasks. main's body executes `go g()`; main and the goroutine each run  *)
(* callFunction on the one interpreter: pushFrame, a body with defer      *)
(* statements, the exit loop over the frame's defers, popFrame. vm.mu is  *)
(* never locked, so an access to vm.frames or to a frame's defers takes   *)
(* two steps (its read, then its write) and other tasks run in between.   *)
Tasks == {"main", "g"}
\* the callFrame each task's callFunction creates (its local `frame`)
FrameOf(t) == IF t = "main" THEN 1 ELSE 2
NoAcc == [tbl |-> "none", mode |-> "none"]
FramesW == [tbl |-> "frames", mode |-> "w"]
FramesR == [tbl |-> "frames", mode |-> "r"]
DefersW(f) == [tbl |-> IF f = 1 THEN "defers1" ELSE "defers2", mode |-> "w"]

TaskInit ==
  /\ tkFrames = <<>>
  /\ tkDefers = [f \in {1, 2} |-> <<>>]
  /\ tkPc = [t \in Tasks |-> IF t = "main" THEN "start" ELSE "unborn"]
  /\ tkAcc = [t \in Tasks |-> NoAcc]
  /\ tkSnap = [t \in Tasks |-> <<>>]
  /\ tkNDef = [t \in Tasks |-> 0]
  /\ tkI = [t \in Tasks |-> 0]
  /\ tkRegs = {}
  /\ tkRan = {}

TaskStep(t, from, to, acc) ==
  /\ tkPc[t] = from
  /\ tkPc' = [tkPc EXCEPT ![t] = to]
  /\ tkAcc' = [tkAcc EXCEPT ![t] = acc]

(* pushFrame: vm.frames = append(vm.frames, fr), its read ...             *)
TaskPushBegin(t) ==
  /\ TaskStep(t, "start", "pushing", FramesW)
  /\ tkSnap' = [tkSnap EXCEPT ![t] = tkFrames]
  /\ UNCHANGED <<tkFrames, tkDefers, tkNDef, tkI, tkRegs, tkRan>>
  /\ OnlyTask

(* ... and its write.                                                     *)
TaskPushEnd(t) ==
  /\ TaskStep(t, "pushing", "body", NoAcc)
  /\ tkFrames' = pushFrame(tkSnap[t], FrameOf(t))
  /\ UNCHANGED <<tkDefers, tkSnap, tkNDef, tkI, tkRegs, tkRan>>
  /\ OnlyTask

(* go g(): the goroutine starts its callFunction.                         *)
TaskGo ==
  /\ tkPc["main"] = "body"
  /\ tkPc["g"] = "unborn"
  /\ tkPc' = [tkPc EXCEPT !["g"] = "start"]
  /\ UNCHANGED <<tkFrames, tkDefers, tkAcc, tkSnap, tkNDef, tkI, tkRegs,
                 tkRan>>
  /\ OnlyTask

(* defer f(): frame := vm.currentFrame() ...                              *)
TaskDeferBegin(t) ==
  /\ tkNDef[t] < MaxTaskDefers
  /\ TaskStep(t, "body", "deferRead", FramesR)
  /\ UNCHANGED <<tkFrames, tkDefers, tkSnap, tkNDef, tkI, tkRegs, tkRan>>
  /\ OnlyTask

(* ... nil gives "defer outside of function" and the body ends; else the  *)
(* append to frame.defers reads the slice ...                             *)
TaskDeferRead(t) ==
  LET f == currentFrame(tkFrames)
  IN /\ IF f = 0
          THEN /\ TaskStep(t, "deferRead", "exit", NoAcc)
               /\ tkI' = [tkI EXCEPT ![t] = Len(tkDefers[FrameOf(t)])]
               /\ UNCHANGED tkSnap
          ELSE /\ TaskStep(t, "deferRead", "deferAppend", DefersW(f))
               /\ tkSnap' = [tkSnap EXCEPT
                               ![t] = [frame |-> f, defers |-> tkDefers[f]]]
               /\ UNCHANGED tkI
     /\ UNCHANGED <<tkFrames, tkDefers, tkNDef, tkRegs, tkRan>>
     /\ OnlyTask

(* ... and writes it back with the closure appended.                      *)
TaskDeferEnd(t) ==
  LET f == tkSnap[t].frame
      d == [by |-> t, n |-> tkNDef[t] + 1, on |-> f]
  IN /\ TaskStep(t, "deferAppend", "body", NoAcc)
     /\ tkDefers' = [tkDefers EXCEPT ![f] = Append(tkSnap[t].defers, d)]
     /\ tkNDef' = [tkNDef EXCEPT ![t] = @ + 1]
     /\ tkRegs' = tkRegs \cup {d}
     /\ UNCHANGED <<tkFrames, tkSnap, tkI, tkRan>>
     /\ OnlyTask

(* The body ends; the exit loop starts at i = len(frame.defers)-1.        *)
TaskLeave(t) ==
  /\ TaskStep(t, "body", "exit", NoAcc)
  /\ tkI' = [tkI EXCEPT ![t] = Len(tkDefers[FrameOf(t)])]
  /\ UNCHANGED <<tkFrames, tkDefers, tkSnap, tkNDef, tkRegs, tkRan>>
  /\ OnlyTask

(* frame.defers[i](): the deferred call runs in this task.                *)
(* An index beyond the slice (an append of another task wrote a shorter   *)
(* one back) is a Go runtime panic in callFunction's deferred function.   *)
TaskRunDefer(t) ==
  /\ tkPc[t] = "exit"
  /\ tkI[t] > 0
  /\ IF tkI[t] > Len(tkDefers[FrameOf(t)])
       THEN /\ tkPc' = [tkPc EXCEPT ![t] = "crashed"]
            /\ UNCHANGED <<tkRan, tkI>>
       ELSE /\ tkRan' = tkRan \cup
                 {[d |-> DeferAt(tkDefers[FrameOf(t)],
                                 Len(tkDefers[FrameOf(t)]) - tkI[t]),
                   ranBy |-> t]}
            /\ tkI' = [tkI EXCEPT ![t] = @ - 1]
            /\ UNCHANGED tkPc
  /\ UNCHANGED <<tkFrames, tkDefers, tkAcc, tkSnap, tkNDef, tkRegs>>
  /\ OnlyTask

(* vm.popFrame(): vm.frames = vm.frames[:len-1], its read ...             *)
TaskPopBegin(t) ==
  /\ tkI[t] = 0
  /\ TaskStep(t, "exit", "popping", FramesW)
  /\ tkSnap' = [tkSnap EXCEPT ![t] = tkFrames]
  /\ UNCHANGED <<tkFrames, tkDefers, tkNDef, tkI, tkRegs, tkRan>>
  /\ OnlyTask

(* ... and its write.                                                     *)
TaskPopEnd(t) ==
  /\ TaskStep(t, "popping", "done", NoAcc)
  /\ tkFrames' = popFrame(tkSnap[t])
  /\ UNCHANGED <<tkDefers, tkSnap, tkNDef, tkI, tkRegs, tkRan>>
  /\ OnlyTask

TaskPush == \E t \in Tasks : TaskPushBegin(t) \/ TaskPushEnd(t)
TaskDefer ==
  \E t \in Tasks : TaskDeferBegin(t) \/ TaskDeferRead(t) \/ TaskDeferEnd(t)
TaskExit == \E t \in Tasks : TaskLeave(t) \/ TaskRunDefer(t)
TaskPop == \E t \in Tasks : TaskPopBegin(t) \/ TaskPopEnd(t)

NextTask ==
  \/ TaskPush
  \/ TaskGo
  \/ TaskDefer
  \/ TaskExit
  \/ TaskPop

InitTask == CallInit /\ ChanIdle /\ ExprIdle /\ EnvIdle /\ MapIdle /\ SliceIdle /\ SelIdle /\ DeclIdle /\ SafeIdle /\ TaskInit /\ EqIdle /\ SwIdle /\ SxIdle /\ FieldIdle /\ AssignIdle /\ RangeIdle /\ DeferArgIdle

SpecTask == InitTask /\ [][NextTask]_vars

----------------------------------------------------------------------------
(* The == operator (evaluator.go applyBinaryOp EQL, equals) on scalar     *)
(* values, with the coercions of types.go it goes through.                *)
EqValues ==
  {IntV(0), IntV(1), IntV(2), FloatV(10), FloatV(15), StrV("1"), StrV("a"),
   StrV("true"), StrV(""), BoolV(TRUE), BoolV(FALSE), Nil}

(* types.go ToFloat, in tenths; of the strings of EqValues only "1" has   *)
(* leading digits.                                                        *)
ToFloat(v) ==
  CASE v.tag = "float" -> v.t
    [] v.tag = "int" -> 10 * v.i
    [] v.tag = "bool" -> IF v.b THEN 10 ELSE 0
    [] v.tag = "string" -> IF v.s = "1" THEN 10 ELSE 0
    [] OTHER -> 0

(* types.go ToString: %d for an int, %g for a float64, %v otherwise.      *)
ValueToString(v) ==
  CASE v.tag = "string" -> v.s
    [] v.tag = "int" -> ToString(v.i)
    [] v.tag = "float" ->
         IF v.t % 10 = 0 THEN ToString(v.t \div 10)
         ELSE ToString(v.t \div 10) \o "." \o ToString(v.t % 10)
    [] v.tag = "bool" -> IF v.b THEN "true" ELSE "false"
    [] OTHER -> "<nil>"

(* equals: the right operand is coerced to the type of the left one.      *)
equals(a, b) ==
  CASE a.tag = "int" -> a.i = ToInt(b)
    [] a.tag = "float" -> a.t = ToFloat(b)
    [] a.tag = "bool" -> a.b = ToBool(b)
    [] a.tag = "string" -> a.s = ValueToString(b)
    [] OTHER -> a = b

EqInit ==
  /\ eqA \in EqValues
  /\ eqB \in EqValues
  /\ eqPc = "ready"
  /\ eqRes = Nil

(* evalExpr of a == b with both operands evaluated: applyBinaryOp EQL.    *)
EqlExpr ==
  /\ eqPc = "ready"
  /\ eqRes' = BoolV(equals(eqA, eqB))
  /\ eqPc' = "done"
  /\ UNCHANGED <<eqA, eqB>>
  /\ OnlyEq

NextEq == EqlExpr

InitEq == CallInit /\ ChanIdle /\ ExprIdle /\ EnvIdle /\ MapIdle /\ SliceIdle /\ SelIdle /\ DeclIdle /\ SafeIdle /\ TaskIdle /\ EqInit /\ SwIdle /\ SxIdle /\ FieldIdle /\ AssignIdle /\ RangeIdle /\ DeferArgIdle

SpecEq == InitEq /\ [][NextEq]_vars

----------------------------------------------------------------------------
(* One switch statement. A clause is a CaseClause: List is nil for the    *)
(* default clause, else the case expressions (already evaluated here).    *)
DefaultClause == [default |-> TRUE, list |-> <<>>]
CaseClause(list) == [default |-> FALSE, list |-> list]
SwClauses(hasTag) ==
  IF hasTag
    THEN {DefaultClause, CaseClause(<<IntV(1)>>), CaseClause(<<IntV(2)>>),
          CaseClause(<<IntV(2), IntV(1)>>)}
    ELSE {DefaultClause, CaseClause(<<BoolV(TRUE)>>),
          CaseClause(<<BoolV(FALSE)>>)}
SwTags(hasTag) == IF hasTag THEN {IntV(1), IntV(3)} ELSE {Nil}

(* The loop over cc.List: ToBool(val) without a tag, equals(tag, val)     *)
(* with one.                                                              *)
CaseMatches(hasTag, tag, list) ==
  \E j \in 1..Len(list) :
    IF hasTag THEN equals(tag, list[j]) ELSE ToBool(list[j])

(* The loop over st.Body.List from clause i on: the position of the       *)
(* clause whose body is evaluated (0: none). A default clause reached     *)
(* with nothing matched so far returns its body at once; so does a case   *)
(* clause that matches.                                                   *)
RECURSIVE SwitchClause(_, _, _, _)
SwitchClause(hasTag, tag, clauses, i) ==
  IF i > Len(clauses) THEN 0
  ELSE IF clauses[i].default THEN i
  ELSE IF CaseMatches(hasTag, tag, clauses[i].list) THEN i
  ELSE SwitchClause(hasTag, tag, clauses, i + 1)

SwInit ==
  /\ swHasTag \in BOOLEAN
  /\ swTag \in SwTags(swHasTag)
  /\ swClauses \in SeqsUpTo(SwClauses(swHasTag), MaxClauses)
  /\ Cardinality({i \in 1..Len(swClauses) : swClauses[i].default}) <= 1
  /\ swPc = "ready"
  /\ swRan = <<>>

(* evalStmt of the switch statement.                                      *)
SwitchStmt ==
  /\ swPc = "ready"
  /\ LET c == SwitchClause(swHasTag, swTag, swClauses, 1)
     IN swRan' = IF c = 0 THEN <<>> ELSE <<c>>
  /\ swPc' = "done"
  /\ UNCHANGED <<swHasTag, swTag, swClauses>>
  /\ OnlySw

NextSw == SwitchStmt

InitSw == CallInit /\ ChanIdle /\ ExprIdle /\ EnvIdle /\ MapIdle /\ SliceIdle /\ SelIdle /\ DeclIdle /\ SafeIdle /\ TaskIdle /\ EqIdle /\ SwInit /\ SxIdle /\ FieldIdle /\ AssignIdle /\ RangeIdle /\ DeferArgIdle

SpecSw == InitSw /\ [][NextSw]_vars

----------------------------------------------------------------------------
(* One slice expression x[lo:hi]. A slice is its Data, a string its       *)
(* bytes (one-letter strings here).                                       *)
NoExpr == [tag |-> "noexpr"]     \* ex.Low == nil, ex.High == nil
SxOperands ==
  [kind : {"slice"}, data : SeqsUpTo({IntV(7), IntV(300)}, MaxLen)]
    \cup [kind : {"string"}, data : SeqsUpTo({"a", "b"}, MaxLen)]
SxIndexes == {NoExpr} \cup {IntV(i) : i \in (0 - 1)..(MaxLen + 1)}

(* evalExpr, SliceExpr: lo := 0; hi := -1; a given bound is ToInt of its  *)
(* value; hi < 0 or hi > len becomes len; lo < 0 or lo > hi is an error.  *)
SliceExpr(x, low, high) ==
  LET lo == IF low = NoExpr THEN 0 ELSE ToInt(low)
      hi0 == IF high = NoExpr THEN 0 - 1 ELSE ToInt(high)
      hi == IF hi0 < 0 \/ hi0 > Len(x.data) THEN Len(x.data) ELSE hi0
  IN IF lo < 0 \/ lo > hi
       THEN [v |-> Nil, err |-> RuntimeErr("invalid slice indices")]
       ELSE [v |-> [kind |-> x.kind, data |-> SubSeq(x.data, lo + 1, hi)],
             err |-> NoErr]

SxInit ==
  /\ sxX \in SxOperands
  /\ sxLow \in SxIndexes
  /\ sxHigh \in SxIndexes
  /\ sxPc = "ready"
  /\ sxRes = Nil

(* evalExpr of x[lo:hi] with x, lo and hi evaluated.                      *)
SliceExprEval ==
  /\ sxPc = "ready"
  /\ sxRes' = SliceExpr(sxX, sxLow, sxHigh)
  /\ sxPc' = "done"
  /\ UNCHANGED <<sxX, sxLow, sxHigh>>
  /\ OnlySx

NextSx == SliceExprEval

InitSx == CallInit /\ ChanIdle /\ ExprIdle /\ EnvIdle /\ MapIdle /\ SliceIdle /\ SelIdle /\ DeclIdle /\ SafeIdle /\ TaskIdle /\ EqIdle /\ SwIdle /\ SxInit /\ FieldIdle /\ AssignIdle /\ RangeIdle /\ DeferArgIdle

SpecSx == InitSx /\ [][NextSx]_vars

----------------------------------------------------------------------------
(* A struct value s of a type T with int fields, and assignments s.f = v  *)
(* (resolveRef SelectorExpr, fieldRef).                                   *)
DeclarableFields == {"a", "b"}
FieldNames == DeclarableFields \cup {"c"}
FieldValues == {IntV(1), IntV(2)}

(* fieldRef.Set: r.s.Fields[r.name] = v; return nil.                      *)
fieldRefSet(fields, name, v) == [fields |-> Put(fields, name, v), err |-> NoErr]

(* s := T{}: the composite literal gives every declared field its zero    *)
(* value.                                                                 *)
FieldInit ==
  /\ fdDecl \in SUBSET DeclarableFields
  /\ fdFields = [f \in fdDecl |-> zeroValue("int")]
  /\ fdLast = NoFieldAssign

(* evalStmt of  s.f = v : resolveRef gives the fieldRef, then Set.        *)
FieldAssign ==
  \E name \in FieldNames, v \in FieldValues :
    /\ LET r == fieldRefSet(fdFields, name, v)
       IN /\ fdFields' = r.fields
          /\ fdLast' = [name |-> name, before |-> fdFields, err |-> r.err]
    /\ UNCHANGED fdDecl
    /\ OnlyField

NextField == FieldAssign

InitField == CallInit /\ ChanIdle /\ ExprIdle /\ EnvIdle /\ MapIdle /\ SliceIdle /\ SelIdle /\ DeclIdle /\ SafeIdle /\ TaskIdle /\ EqIdle /\ SwIdle /\ SxIdle /\ FieldInit /\ AssignIdle /\ RangeIdle /\ DeferArgIdle

SpecField == InitField /\ [][NextField]_vars

----------------------------------------------------------------------------
(* One assignment statement  l1, l2 = r1, r2  over the variables a and b  *)
(* and the elements s[i] of a slice s; each operand is an identifier or   *)
(* an index expression with a constant index.                             *)
VarRef(n) == [kind |-> "var", name |-> n]
IdxRef(i) == [kind |-> "idx", i |-> i]
AssignOperands ==
  {VarRef("a"), VarRef("b")} \cup {IdxRef(i) : i \in 0..MaxLen}
AssignValues == {IntV(1), IntV(2)}

(* evalExpr of an operand: Ident through vm.get, IndexExpr with the       *)
(* bounds check of the slice case.                                        *)
ReadOperand(store, e) ==
  IF e.kind = "var" THEN [v |-> store.vars[e.name], err |-> NoErr]
  ELSE IF e.i >= Len(store.data)
    THEN [v |-> Nil, err |-> RuntimeErr("index out of range")]
    ELSE [v |-> store.data[e.i + 1], err |-> NoErr]

(* resolveRef: a varRef, or a sliceIndexRef after the bounds check.       *)
resolveRef(store, l) ==
  IF l.kind = "idx" /\ l.i >= Len(store.data)
    THEN RuntimeErr("index out of range")
    ELSE NoErr

(* Ref.Set of varRef and of sliceIndexRef.                                *)
RefSet(store, l, v) ==
  IF l.kind = "var" THEN [store EXCEPT !.vars[l.name] = v]
  ELSE [store EXCEPT !.data[l.i + 1] = v]

(* An assignment done one pair at a time: r1 is stored into l1 before r2  *)
(* is evaluated.                                                          *)
AssignStmtPairwise(store, lhs, rhs) ==
  LET r1 == ReadOperand(store, rhs[1])
      s1x == IF r1.err = NoErr /\ resolveRef(store, lhs[1]) = NoErr
               THEN RefSet(store, lhs[1], r1.v) ELSE store
      r2 == ReadOperand(s1x, rhs[2])
  IN IF r1.err # NoErr THEN [store |-> store, err |-> r1.err]
     ELSE IF resolveRef(store, lhs[1]) # NoErr
       THEN [store |-> store, err |-> resolveRef(store, lhs[1])]
     ELSE IF r2.err # NoErr THEN [store |-> s1x, err |-> r2.err]
     ELSE IF resolveRef(s1x, lhs[2]) # NoErr
       THEN [store |-> s1x, err |-> resolveRef(s1x, lhs[2])]
     ELSE [store |-> RefSet(s1x, lhs[2], r2.v), err |-> NoErr]

(* evalStmt, AssignStmt with token.ASSIGN: every Rhs is evaluated into    *)
(* rightVals, then every Lhs is resolved into leftRefs, then              *)
(* leftRefs[i].Set(rightVals[i]) in order. An error leaves before the     *)
(* first store.                                                           *)
AssignStmt(store, lhs, rhs) ==
  LET r1 == ReadOperand(store, rhs[1])
      r2 == ReadOperand(store, rhs[2])
  IN IF r1.err # NoErr THEN [store |-> store, err |-> r1.err]
     ELSE IF r2.err # NoErr THEN [store |-> store, err |-> r2.err]
     ELSE IF resolveRef(store, lhs[1]) # NoErr
       THEN [store |-> store, err |-> resolveRef(store, lhs[1])]
     ELSE IF resolveRef(store, lhs[2]) # NoErr
       THEN [store |-> store, err |-> resolveRef(store, lhs[2])]
     ELSE [store |-> RefSet(RefSet(store, lhs[1], r1.v), lhs[2], r2.v),
           err |-> NoErr]

AssignInit ==
  /\ asStore \in [vars : [{"a", "b"} -> AssignValues],
                   data : [1..MaxLen -> AssignValues]]
  /\ asLhs \in [1..2 -> AssignOperands]
  /\ asRhs \in [1..2 -> AssignOperands]
  /\ asPc = "ready"
  /\ asBefore = asStore
  /\ asErr = NoErr

(* evalStmt of the assignment.                                            *)
AssignExec ==
  /\ asPc = "ready"
  /\ LET r == AssignStmt(asStore, asLhs, asRhs)
     IN asStore' = r.store /\ asErr' = r.err
  /\ asPc' = "done"
  /\ UNCHANGED <<asLhs, asRhs, asBefore>>
  /\ OnlyAssign

NextAssign == AssignExec

InitAssign == CallInit /\ ChanIdle /\ ExprIdle /\ EnvIdle /\ MapIdle /\ SliceIdle /\ SelIdle /\ DeclIdle /\ SafeIdle /\ TaskIdle /\ EqIdle /\ SwIdle /\ SxIdle /\ FieldIdle /\ AssignInit /\ RangeIdle /\ DeferArgIdle

SpecAssign == InitAssign /\ [][NextAssign]_vars

----------------------------------------------------------------------------
(* One statement  for k, v := range x  over a slice x, executed in some   *)
(* scope of a program that has declared variables in nested scopes.       *)
RangeElems == {IntV(1), IntV(2)}
RangeIdents == Names \cup {"_"}

\* Holder and set on an explicit table of environments
RECURSIVE HolderIn(_, _, _, _)
HolderIn(vs, ps, name, e) ==
  IF e = 0 THEN 0
  ELSE IF vs[e][name] # Absent THEN e
  ELSE HolderIn(vs, ps, name, ps[e])

(* Interpreter.set: the first binding outwards, else the current scope.   *)
setIn(vs, ps, name, val, e) ==
  LET h == HolderIn(vs, ps, name, e)
      target == IF h # 0 THEN h ELSE e
  IN [vs EXCEPT ![target][name] = val]

(* The loop of the SliceVal case from index i (from 1 here) on: for each  *)
(* element vm.set(key, i, local), vm.set(value, s.Data[i], local), then   *)
(* the body, which touches no variable here.                              *)
RECURSIVE RangeLoop(_, _, _, _, _, _, _)
RangeLoop(vs, ps, local, key, value, data, i) ==
  IF i > Len(data) THEN vs
  ELSE LET vk == IF key = "_" THEN vs
                 ELSE setIn(vs, ps, key, IntV(i - 1), local)
           vv == IF value = "_" THEN vk
                 ELSE setIn(vk, ps, value, data[i], local)
       IN RangeLoop(vv, ps, local, key, value, data, i + 1)

(* evalStmt, RangeStmt: local := NewEnv(env), then the loop.              *)
RangeStmt ==
  \E e \in 1..nEnv, key \in RangeIdents, value \in RangeIdents :
    \E data \in SeqsUpTo(RangeElems, MaxLen) :
      /\ rgLast = NoRange
      /\ nEnv < MaxEnvs
      /\ key = value => key = "_"
      /\ nEnv' = nEnv + 1
      /\ envParent' = Append(envParent, e)
      /\ envVars' = RangeLoop(Append(envVars, [n \in Names |-> Absent]),
                              Append(envParent, e), nEnv + 1, key, value,
                              data, 1)
      /\ rgLast' = [env |-> e, key |-> key, value |-> value, data |-> data,
                    before |-> envVars, after |-> envVars']
      /\ OnlyRange

(* The program before the range statement: blocks and declarations.       *)
RangePrelude == rgLast = NoRange /\ (EnvNew \/ EnvDeclare)

NextRange ==
  \/ RangePrelude
  \/ RangeStmt

InitRange == CallInit /\ ChanIdle /\ ExprIdle /\ EnvInit /\ MapIdle /\ SliceIdle /\ SelIdle /\ DeclIdle /\ SafeIdle /\ TaskIdle /\ EqIdle /\ SwIdle /\ SxIdle /\ FieldIdle /\ AssignIdle /\ RangeIdle /\ DeferArgIdle

SpecRange == InitRange /\ [][NextRange]_vars

----------------------------------------------------------------------------
(* A function body with the variables x (an int) and f (a function), in   *)
(* which the statements  defer f(x),  go f(x)  and assignments to x and f *)
(* run in any order before the function returns.                          *)
DaFuncs == {"g", "h"}
DaValues == {IntV(1), IntV(2)}

(* prepareCall for the call f(x): evalExpr of call.Fun and of every       *)
(* argument in env, without invoking.                                     *)
prepareCall(env) == [fn |-> env.f, args |-> <<env.x>>]

(* A closure that looks the callee and the arguments up when it runs.     *)
ClosureCallLate(c, env) == prepareCall(env)

(* The closure registered by defer and the one started by go:             *)
(* vm.callFunction(fn, env, recv, args) with the fn and args prepared at  *)
(* the statement; callFunction declares args as the parameters.           *)
ClosureCall(c, env) == [fn |-> c.fn, args |-> c.args]

DeferArgInit ==
  /\ daEnv \in [x : DaValues, f : DaFuncs]
  /\ daPc = "body"
  /\ daDefers = <<>>
  /\ daGos = {}
  /\ daStmts = <<>>
  /\ daCalls = <<>>

Closure(kind) ==
  LET p == prepareCall(daEnv)
  IN [id |-> Len(daStmts) + 1, kind |-> kind, fn |-> p.fn, args |-> p.args]

(* evalStmt, DeferStmt: prepareCall now, the closure goes on the frame.   *)
DeferStmt ==
  /\ daPc = "body"
  /\ Len(daStmts) < MaxDeferGo
  /\ daDefers' = Append(daDefers, Closure("defer"))
  /\ daStmts' = Append(daStmts, [kind |-> "defer", env |-> daEnv])
  /\ UNCHANGED <<daEnv, daPc, daGos, daCalls>>
  /\ OnlyDeferArg

(* evalStmt, GoStmt: prepareCall now, the closure starts as a goroutine.  *)
GoStmt ==
  /\ daPc = "body"
  /\ Len(daStmts) < MaxDeferGo
  /\ daGos' = daGos \cup {Closure("go")}
  /\ daStmts' = Append(daStmts, [kind |-> "go", env |-> daEnv])
  /\ UNCHANGED <<daEnv, daPc, daDefers, daCalls>>
  /\ OnlyDeferArg

(* x = v  or  f = h : an assignment rebinds a variable of the body.       *)
DaAssign ==
  /\ daPc = "body"
  /\ \/ \E v \in DaValues \ {daEnv.x} : daEnv' = [daEnv EXCEPT !.x = v]
     \/ \E h \in DaFuncs \ {daEnv.f} : daEnv' = [daEnv EXCEPT !.f = h]
  /\ UNCHANGED <<daPc, daDefers, daGos, daStmts, daCalls>>
  /\ OnlyDeferArg

(* The body ends: callFunction's exit loop starts.                        *)
DaReturn ==
  /\ daPc = "body"
  /\ daPc' = "exit"
  /\ UNCHANGED <<daEnv, daDefers, daGos, daStmts, daCalls>>
  /\ OnlyDeferArg

CallMade(c) ==
  LET r == ClosureCall(c, daEnv)
  IN [id |-> c.id, fn |-> r.fn, args |-> r.args, now |-> daEnv]

(* The exit loop runs the last registered closure not yet run.            *)
DaRunDefer ==
  /\ daPc = "exit"
  /\ daDefers # <<>>
  /\ daCalls' = Append(daCalls, CallMade(Last(daDefers)))
  /\ daDefers' = Front(daDefers)
  /\ UNCHANGED <<daEnv, daPc, daGos, daStmts>>
  /\ OnlyDeferArg

DaExit ==
  /\ daPc = "exit"
  /\ daDefers = <<>>
  /\ daPc' = "done"
  /\ UNCHANGED <<daEnv, daDefers, daGos, daStmts, daCalls>>
  /\ OnlyDeferArg

(* A started goroutine gets to run its call.                              *)
DaGoRun ==
  \E c \in daGos :
    /\ daCalls' = Append(daCalls, CallMade(c))
    /\ daGos' = daGos \ {c}
    /\ UNCHANGED <<daEnv, daPc, daDefers, daStmts>>
    /\ OnlyDeferArg

NextDeferArg ==
  \/ DeferStmt
  \/ GoStmt
  \/ DaAssign
  \/ DaReturn
  \/ DaRunDefer
  \/ DaExit
  \/ DaGoRun

InitDeferArg == CallInit /\ ChanIdle /\ ExprIdle /\ EnvIdle /\ MapIdle /\ SliceIdle /\ SelIdle /\ DeclIdle /\ SafeIdle /\ TaskIdle /\ EqIdle /\ SwIdle /\ SxIdle /\ FieldIdle /\ AssignIdle /\ RangeIdle /\ DeferArgInit

SpecDeferArg == InitDeferArg /\ [][NextDeferArg]_vars

----------------------------------------------------------------------------
(* Claims about the call machinery, checked under SpecCall.               *)

Active(i) == \E k \in 1..Len(stack) : stack[k].inv = i
Finished(i) == i <= nInv /\ ~Active(i)
IsPrefix(s, t) == Len(s) <= Len(t) /\ SubSeq(t, 1, Len(s)) = s
TimesRun(d) ==
  Cardinality({<<i, k>> \in (1..MaxCalls) \X (1..MaxCalls) :
                 k <= Len(executed[i]) /\ executed[i][k] = d})

C2_PanicReachesRun ==
  /\ \A k \in 1..Len(stack) :
       exitHow[stack[k].inv] = "panic" => stack[k].phase = "exit"
  /\ runState = "returned" => \A v \in raised : runErr = PanicErr(v)

----------------------------------------------------------------------------
(* Claims about channels, checked under SpecChan / FairChan.              *)

SentValues == [k \in 1..prodN |-> ChanVal(chElem, k)]

(* C3: when the producer goroutine sends n values and closes the channel  *)
(* while main ranges over it, the range body runs once per value in send  *)
(* order (always a prefix of the values sent, all of them once the loop   *)
(* has ended), and the loop and Run terminate, for every capacity.        *)
C3_RangeDelivers ==
  /\ [](mainProg = "range" =>
          /\ IsPrefix(received, SentValues)
          /\ (mainPc \in {"exit", "done"} => received = SentValues))
  /\ (mainProg = "range" => <>(runState = "returned"))

C3_Witness ==
  /\ mainProg = "range"
  /\ runState = "returned"
  /\ prodN >= 2
  /\ chCap = 0
  /\ received = SentValues

(* C4: in `v, ok := <-ch`, ok is false iff the channel is closed and      *)
(* drained, and then v is the zero value of the element type; while a     *)
(* value is queued, ok is true and v is the oldest queued value.          *)
C4_TwoValueReceive ==
  lastRecv.form = "recv2" =>
    /\ lastRecv.ok = ~lastRecv.drained
    /\ ~lastRecv.ok => lastRecv.v = zeroValue(chElem)
    /\ lastRecv.ok => lastRecv.v = lastRecv.head

(* C5: close(ch) on a channel that is already closed fails with an error. *)
C5_SecondCloseFails ==
  \A c \in closeLog : c.wasClosed => c.res = "error"

(* C6: a send on a closed channel by the main task makes Run return the   *)
(* error "send on closed channel".                                        *)
C6_SendOnClosedFails ==
  (sentOnClosed /\ runState = "returned") =>
    (runErr.kind # "none" /\ runErr.v = "send on closed channel")

----------------------------------------------------------------------------
(* Claims about expressions, environments, maps and slices.               *)

C8_EnvOpacity ==
  \A e \in 1..nEnv : \A n \in Names :
    (envParent[e] # 0 /\ envVars[e][n] = Absent)
      => get(n, e) = get(n, envParent[e])

C8_Witness ==
  \E e \in 1..nEnv : \E n \in Names :
    /\ envParent[e] # 0
    /\ envParent[envParent[e]] # 0
    /\ envVars[e][n] = Absent
    /\ envVars[envParent[e]][n] = Absent
    /\ get(n, e) = <<IntV(1), TRUE>>
    /\ \E m \in Names : envVars[e][m] # Absent

(* C9: after m[k] = v and then delete(m, k), `x, ok := m[k]` gives        *)
(* ok = false and x = the zero value of the element type, and len(m) does *)
(* not count k.                                                           *)
C9_DeletedKeyLookup ==
  lastLookup.hist = "setdel" =>
    /\ lastLookup.ok = FALSE
    /\ lastLookup.x = zeroValue(mapElem)
    /\ lastLookup.len = lastLookup.others

(* C10: after s2 = append(s1, x): len(s2) = len(s1) + 1, s2[len(s1)] = x  *)
(* and s2[i] = s1[i] below len(s1) (indices from 1 here).                 *)
C10_AppendSound ==
  s2 # 0 =>
    LET d1 == slHeap[s1].data
        d2 == slHeap[s2].data
    IN /\ Len(d2) = Len(d1) + 1
       /\ d2[Len(d1) + 1] = slX
       /\ \A i \in 1..Len(d1) : d2[i] = d1[i]

(* C18: when a deferred invocation panics during a function's exit, the   *)
(* earlier-registered defers of that frame still run and the function     *)
(* exits with the most recent such panic as its error, also when its body *)
(* had returned normally.                                                 *)
PanickedDefers(p) ==
  {d \in 1..nInv : /\ invParent[d] = [inv |-> p, kind |-> "deferred"]
                   /\ invResult[d].kind = "panic"}
MaxOf(S) == CHOOSE x \in S : \A y \in S : y <= x

C18_DeferredPanicSurvives ==
  \A p \in 1..nInv :
    (invResult[p] # NotReturned /\ PanickedDefers(p) # {})
      => /\ executed[p] = Reverse(registered[p])
         /\ invResult[p] = invResult[MaxOf(PanickedDefers(p))]

(* C19: a runtime fault in a function body behaves like a panic: the      *)
(* frame's defers run and the call ends with an error, so Run does not    *)
(* return ok after a runtime fault in the main task.                      *)
C19_FaultIsPanic ==
  /\ \A i \in 1..nInv :
       (exitHow[i] = "fault" /\ invResult[i] # NotReturned)
         => /\ executed[i] = Reverse(registered[i])
            /\ invResult[i].kind # "none"
  /\ (runState = "returned" /\ \E i \in 1..nInv : exitHow[i] = "fault")
       => runErr.kind # "none"

DeclaredNow(n) == \E i \in 1..Len(runSrc.decls) : runSrc.decls[i].name = n

C13_RunNeedsMain ==
  /\ runResult = "ok" => (runSrc.pkg = "main" /\ "main" \in funcs)
  /\ (declPc = "idle" /\ nRuns > 0 /\ runSrc.pkg # "main")
       => runResult = "error"
  /\ (declPc = "idle" /\ nRuns = 1 /\ ~DeclaredNow("main"))
       => runResult = "error"

C13_Witness ==
  /\ declPc = "idle"
  /\ nRuns = 1
  /\ runSrc.pkg = "main"
  /\ runSrc.decls = <<[k |-> "func", name |-> "f"]>>
  /\ runResult = "error"

(* C20: a method with receiver T is in T's method table after the         *)
(* declaration pass whether the source declares it before or after        *)
(* `type T struct`.                                                       *)
C20_MethodOrder ==
  (/\ \E i \in 1..Len(runSrc.decls) : runSrc.decls[i].k = "type"
   /\ \E i \in 1..Len(runSrc.decls) : runSrc.decls[i].k = "method")
    => "m" \in types["T"].Methods

(* C14: RunSafe always returns: with "timed out" if the program had not   *)
(* finished when the timeout elapsed, with the program's own outcome if   *)
(* the program finished before the timeout.                               *)
C14_RunSafeReturns ==
  /\ ~hostCrashed
  /\ rsPc = "returned" =>
       /\ rsFirst = "timeout" => rsRet = TimeoutErr
       /\ rsFirst = "program" => rsRet = wkRes

(* C15: no panic or runtime fault of the interpreted program, in a        *)
(* function body or in a top-level initialiser, crashes the host: each is *)
(* turned into an error RunSafe returns.                                  *)
C15_PanicsBecomeErrors ==
  /\ ~hostCrashed
  /\ (rsPc = "returned" /\ rsRet # TimeoutErr
        /\ rsProg \in {"panic", "faultBody", "faultTop"})
       => rsRet.kind # "none"

(* C16: each task has its own frame stack: under any interleaving a defer *)
(* statement of task T registers on the frame of the function T is        *)
(* executing, never on a frame pushed by another task, and the deferred   *)
(* call runs when T's function exits.                                     *)
C16_OwnFrameStack ==
  /\ \A d \in tkRegs : d.on = FrameOf(d.by)
  /\ \A r \in tkRan : r.ranBy = r.d.by
  /\ \A t \in Tasks :
       tkPc[t] = "done" =>
         \A d \in tkRegs : d.by = t => \E r \in tkRan : r.d = d

(* C17: accesses of concurrently running tasks to the shared interpreter  *)
(* state are serialised under the interpreter mutex: no two tasks are in  *)
(* the middle of accesses to the same shared table with one of them       *)
(* writing.                                                               *)
C17_AccessesSerialised ==
  \A t, u \in Tasks :
    (t # u /\ tkAcc[t].tbl # "none" /\ tkAcc[t].tbl = tkAcc[u].tbl)
      => (tkAcc[t].mode = "r" /\ tkAcc[u].mode = "r")

(* C27: after any sequence of map writes, nil-assignments and deletes the *)
(* value table and the original-key table of the map have the same hashed *)
(* keys: len(m) is the number of entries a range visits and every visited *)
(* key has an entry in the value table.                                   *)
C27_TablesAgree ==
  /\ DOMAIN TheMap.Data = DOMAIN TheMap.Keys
  /\ builtinLen(TheMap.Data) = Cardinality(keysOfMap(TheMap))
  /\ \A hk \in keysOfMap(TheMap) : getByKey(TheMap.Data, TheMap.Keys[hk])[2]

C27_Witness ==
  /\ keyHist[IntV(1)] = "setdel"
  /\ keyHist[StrV("1")] = "set"
  /\ keysOfMap(TheMap) = {hashKey(StrV("a"))}

(* C30: s2 = append(s1, x) leaves the length and the elements seen        *)
(* through s1 what they were before the call.                             *)
C30_AppendLeavesArgument ==
  s2 # 0 => slHeap[s1].data = slOld

(* C29: the worker of RunSafe is never blocked delivering its result:     *)
(* once the interpreted program has finished the send on the done channel *)
(* can complete, also after RunSafe has returned with a timeout.          *)
C29_WorkerSendNeverBlocks ==
  wkPc = "send" => ENABLED WorkerSend

C29_Witness ==
  /\ rsPc = "returned" /\ rsRet = TimeoutErr
  /\ wkPc = "done" /\ doneCh = <<wkRes>>

MatchingCases ==
  {i \in 1..Len(swClauses) :
     ~swClauses[i].default
       /\ CaseMatches(swHasTag, swTag, swClauses[i].list)}
DefaultClauses == {i \in 1..Len(swClauses) : swClauses[i].default}
C21_FirstMatchElseDefault ==
  swPc = "done" =>
    swRan = IF MatchingCases # {}
              THEN <<CHOOSE i \in MatchingCases :
                       \A j \in MatchingCases : i <= j>>
              ELSE IF DefaultClauses # {}
                THEN <<CHOOSE i \in DefaultClauses : TRUE>>
                ELSE <<>>

(* C22: x[lo:hi] on a slice or a string succeeds only when                *)
(* 0 <= lo <= hi <= len(x), lo defaulting to 0 and hi to len(x); a given  *)
(* lo or hi outside that range makes the expression fail.                 *)
C22_SliceBoundsEnforced ==
  sxPc = "done" =>
    LET n == Len(sxX.data)
        lo == IF sxLow = NoExpr THEN 0 ELSE sxLow.i
        hi == IF sxHigh = NoExpr THEN n ELSE sxHigh.i
    IN (sxRes.err = NoErr) <=> (0 <= lo /\ lo <= hi /\ hi <= n)

(* C23: assigning to a field name the struct's type does not declare      *)
(* fails with a "no such field" error and leaves the struct's set of      *)
(* fields unchanged.                                                      *)
C23_UnknownFieldFails ==
  (fdLast # NoFieldAssign /\ fdLast.name \notin fdDecl) =>
    /\ fdLast.err = RuntimeErr("no such field")
    /\ DOMAIN fdFields = DOMAIN fdLast.before

RECURSIVE EnclosingScopes(_)
EnclosingScopes(e) ==
  IF e = 0 THEN {} ELSE {e} \cup EnclosingScopes(envParent[e])
C28_RangeVarsLocal ==
  rgLast # NoRange =>
    \A e \in EnclosingScopes(rgLast.env) :
      \A n \in {rgLast.key, rgLast.value} \ {"_"} :
        rgLast.after[e][n] = rgLast.before[e][n]

(* C24: the callee and the argument values of a defer statement and of a  *)
(* go statement are evaluated at the point where the statement executes:  *)
(* every deferred call and every goroutine receives the function and the  *)
(* argument the variables held then, whatever they are rebound to later.  *)
C24_ArgsSnapshotted ==
  \A i \in 1..Len(daCalls) :
    /\ daCalls[i].fn = daStmts[daCalls[i].id].env.f
    /\ daCalls[i].args = <<daStmts[daCalls[i].id].env.x>>

C24_Witness ==
  \E i, j \in 1..Len(daCalls) :
    /\ daStmts[daCalls[i].id].kind = "defer"
    /\ daStmts[daCalls[j].id].kind = "go"
    /\ daCalls[i].now.x # daStmts[daCalls[i].id].env.x
    /\ daCalls[i].now.f # daStmts[daCalls[i].id].env.f
    /\ daCalls[j].now.x # daStmts[daCalls[j].id].env.x

=============================================================================
